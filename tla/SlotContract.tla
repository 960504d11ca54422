----------------------------- MODULE SlotContract -----------------------------
(***************************************************************************)
(* What the experiment-slot ledger and the attempt directories promise     *)
(* together: a slot belongs to one invocation for good once that one has   *)
(* executed a candidate, and a directory shows a complete attempt only of  *)
(* an invocation that executed and owns its slot.  A power loss may forget *)
(* the owner of a slot nothing was executed for, and may take evidence     *)
(* away or bring it back, but never gives it to somebody else.             *)
(***************************************************************************)
CONSTANTS
    Attempts,  \* invocations of run_exact_attempt
    Slots, SlotOf,
    Dirs, DirOf,
    NoOne

VARIABLES
    owner,     \* per slot: the invocation that consumed it
    executed,  \* the invocations that went on to execute a candidate
    evidence   \* per directory: whose complete attempt a reader finds there

contractVars == <<owner, executed, evidence>>

Init ==
    /\ owner = [s \in Slots |-> NoOne]
    /\ executed = {}
    /\ evidence = [d \in Dirs |-> NoOne]

Consume(p) ==
    /\ owner[SlotOf[p]] = NoOne
    /\ owner' = [owner EXCEPT ![SlotOf[p]] = p]
    /\ UNCHANGED <<executed, evidence>>

Execute(p) ==
    /\ owner[SlotOf[p]] = p /\ p \notin executed
    /\ executed' = executed \cup {p}
    /\ UNCHANGED <<owner, evidence>>

Publish(p) ==
    /\ owner[SlotOf[p]] = p /\ p \in executed /\ evidence[DirOf[p]] = NoOne
    /\ evidence' = [evidence EXCEPT ![DirOf[p]] = p]
    /\ UNCHANGED <<owner, executed>>

Withdraw(p) ==
    /\ evidence[DirOf[p]] = p
    /\ evidence' = [evidence EXCEPT ![DirOf[p]] = NoOne]
    /\ UNCHANGED <<owner, executed>>

Lose ==
    /\ owner' \in [Slots -> Attempts \cup {NoOne}]
    /\ \A s \in Slots : owner'[s] # owner[s] => owner'[s] = NoOne /\ owner[s] \notin executed
    /\ evidence' \in [Dirs -> executed \cup {NoOne}]
    /\ \A d \in Dirs : evidence'[d] # NoOne =>
        /\ evidence[d] \in {NoOne, evidence'[d]}
        /\ DirOf[evidence'[d]] = d /\ owner[SlotOf[evidence'[d]]] = evidence'[d]
    /\ UNCHANGED executed

Next ==
    \/ \E p \in Attempts : Consume(p) \/ Execute(p) \/ Publish(p) \/ Withdraw(p)
    \/ Lose

Spec == Init /\ [][Next]_contractVars
=============================================================================
