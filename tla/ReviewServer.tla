----------------------------- MODULE ReviewServer -----------------------------
(***************************************************************************)
(* serve.py over a reviews root into which publish.py publishes: handler   *)
(* threads that save and read the response of one review.  A POST writes   *)
(* its response to a temporary file of its own and renames that over       *)
(* response.json; a GET reads the review and then the response, each from  *)
(* the session directory it opened first.  A file is named by the POST     *)
(* that wrote it.  The timestamp, the token and the texts are left out:    *)
(* whatever makes a handler refuse a request is one rejection.             *)
(***************************************************************************)
EXTENDS SessionPublisher

CONSTANTS Posts, Gets   \* requests

ASSUME ServerAssumption == NoOne \notin Posts

VARIABLES
    response,  \* the file under response.json, per session directory
    temporary, \* the POSTs whose temporary name exists
    written,   \* how much of its file each POST has written
    post,      \* each POST's progress and the session directory it opened
    get,       \* each GET's progress, directory, opened file and reading
    saves,     \* history: the POSTs in the order of their renames
    replied    \* history: the POSTs answered 200

serverVars == <<response, temporary, written, post, get, saves, replied>>

ServerInit ==
    /\ response = [d \in Publishers |-> NoOne]
    /\ temporary = {}
    /\ written = [w \in Posts |-> "nothing"]
    /\ post = [w \in Posts |-> [at |-> "request", dir |-> NoOne]]
    /\ get = [g \in Gets |-> [at |-> "request", dir |-> NoOne, file |-> NoOne, seen |-> "nothing",
                              after |-> {}]]
    /\ saves = <<>> /\ replied = {}

-----------------------------------------------------------------------------
(* do_POST *)

PostGoto(w, next) == post' = [post EXCEPT ![w].at = next]

(* _load_review opens the session directory and every asset in it. *)
PostLoad(w) ==
    /\ post[w].at = "request"
    /\ post' = [post EXCEPT ![w] = IF session # NoOne /\ Whole(session)
                                   THEN [at |-> "loaded", dir |-> session]
                                   ELSE [at |-> "refused", dir |-> NoOne]]
    /\ UNCHANGED <<response, temporary, written, get, saves, replied>>

(* A read-only server, a wrong token, origin, length or payload. *)
PostReject(w) ==
    /\ post[w].at \in {"request", "loaded"}
    /\ PostGoto(w, "refused")
    /\ UNCHANGED <<response, temporary, written, get, saves, replied>>

OpenInPlace(w) ==                              \* mutant: response.json itself is opened
    /\ post[w].at = "loaded"
    /\ response' = [response EXCEPT ![post[w].dir] = w]
    /\ written' = [written EXCEPT ![w] = "part"]
    /\ PostGoto(w, "writing")
    /\ UNCHANGED <<temporary, get, saves, replied>>

(* _atomic_response *)
OpenTemporary(w) ==
    /\ post[w].at = "loaded"
    /\ temporary' = temporary \cup {w}
    /\ written' = [written EXCEPT ![w] = "part"]
    /\ PostGoto(w, "writing")
    /\ UNCHANGED <<response, get, saves, replied>>

WriteResponse(w) ==
    /\ post[w].at = "writing"
    /\ written' = [written EXCEPT ![w] = "whole"]
    /\ PostGoto(w, "renaming")
    /\ UNCHANGED <<response, temporary, get, saves, replied>>

(* The write or the rename raises: finally removes the temporary file. *)
SaveFailsLeaving(w) ==                         \* mutant: no finally
    /\ post[w].at \in {"writing", "renaming"}
    /\ PostGoto(w, "refused")
    /\ UNCHANGED <<response, temporary, written, get, saves, replied>>

SaveFails(w) ==
    /\ post[w].at \in {"writing", "renaming"}
    /\ temporary' = temporary \ {w}
    /\ PostGoto(w, "refused")
    /\ UNCHANGED <<response, written, get, saves, replied>>

RenameEarly(w) ==                              \* mutant: renamed before it is written
    /\ post[w].at \in {"writing", "renaming"}
    /\ response' = [response EXCEPT ![post[w].dir] = w]
    /\ temporary' = temporary \ {w}
    /\ saves' = Append(saves, w)
    /\ PostGoto(w, "saved")
    /\ UNCHANGED <<written, get, replied>>

RenameResponse(w) ==
    /\ post[w].at = "renaming"
    /\ response' = [response EXCEPT ![post[w].dir] = w]
    /\ temporary' = temporary \ {w}
    /\ saves' = Append(saves, w)
    /\ PostGoto(w, "saved")
    /\ UNCHANGED <<written, get, replied>>

ReplyBeforeRename(w) ==                        \* mutant: answered once it is written
    /\ post[w].at \in {"renaming", "saved"} /\ w \notin replied
    /\ replied' = replied \cup {w}
    /\ PostGoto(w, IF post[w].at = "saved" THEN "answered" ELSE "renaming")
    /\ UNCHANGED <<response, temporary, written, get, saves>>

Reply(w) ==
    /\ post[w].at = "saved"
    /\ replied' = replied \cup {w}
    /\ PostGoto(w, "answered")
    /\ UNCHANGED <<response, temporary, written, get, saves>>

-----------------------------------------------------------------------------
(* do_GET *)

GetLoad(g) ==
    /\ get[g].at = "request"
    /\ get' = [get EXCEPT ![g] =
            IF session # NoOne /\ Whole(session)
            THEN [@ EXCEPT !.at = "loaded", !.dir = session, !.after = replied]
            ELSE [@ EXCEPT !.at = "refused"]]
    /\ UNCHANGED <<response, temporary, written, post, saves, replied>>

(* _read_response_descriptor: the file is opened once, then read. *)
GetOpenResponse(g) ==
    /\ get[g].at = "loaded"
    /\ get' = [get EXCEPT ![g].file = response[get[g].dir],
                          ![g].at = IF response[get[g].dir] = NoOne THEN "answered" ELSE "opened"]
    /\ UNCHANGED <<response, temporary, written, post, saves, replied>>

GetReadResponse(g) ==
    /\ get[g].at = "opened"
    /\ get' = [get EXCEPT ![g].seen = written[get[g].file], ![g].at = "answered"]
    /\ UNCHANGED <<response, temporary, written, post, saves, replied>>

-----------------------------------------------------------------------------
InFlight == {"loaded", "writing", "renaming", "saved"}

(* The server process dies, with every handler thread in it, and starts    *)
(* again: requests in flight are never answered, files stay as they are.   *)
ServerCrash ==
    /\ \/ \E w \in Posts : post[w].at \in InFlight
       \/ \E g \in Gets : get[g].at \in {"loaded", "opened"}
    /\ post' = [w \in Posts |-> IF post[w].at \in InFlight
                                THEN [post[w] EXCEPT !.at = "lost"] ELSE post[w]]
    /\ get' = [g \in Gets |-> IF get[g].at \in {"loaded", "opened"}
                              THEN [get[g] EXCEPT !.at = "lost"] ELSE get[g]]
    /\ UNCHANGED <<response, temporary, written, saves, replied>>

ServerNext ==
    \/ \E w \in Posts :
        \/ PostLoad(w) \/ PostReject(w) \/ OpenTemporary(w) \/ WriteResponse(w)
        \/ SaveFails(w) \/ RenameResponse(w) \/ Reply(w)
    \/ \E g \in Gets : GetLoad(g) \/ GetOpenResponse(g) \/ GetReadResponse(g)
    \/ ServerCrash

vars == <<publisherVars, serverVars>>

Init == PublisherInit /\ ServerInit

Next == \/ PublisherNext /\ UNCHANGED serverVars
        \/ ServerNext /\ UNCHANGED publisherVars

Spec == Init /\ [][Next]_vars

-----------------------------------------------------------------------------
(* Properties *)

Position(w) == CHOOSE n \in DOMAIN saves : saves[n] = w

(* A response.json is a file somebody renamed there. *)
TypeOK ==
    /\ temporary \subseteq Posts /\ replied \subseteq Posts
    /\ \A d \in Publishers : response[d] \in Range(saves) \cup {NoOne}
    /\ \A w \in Posts : post[w].dir \in Publishers \cup {NoOne}
    /\ \A g \in Gets : get[g].file \in Posts \cup {NoOne} /\ get[g].after \subseteq Posts

(* A GET that began after a POST was answered gives that POST's response   *)
(* or one saved later: never none, never an earlier one, never part of a   *)
(* file (visual-review/README.md:646, "atomically replaces only that       *)
(* session's response.json").                                              *)
ReadsFollowReplies ==
    \A g \in Gets : get[g].at = "answered" =>
        /\ get[g].file # NoOne => get[g].seen = "whole"
        /\ \A w \in get[g].after :
            /\ get[g].file # NoOne
            /\ Position(get[g].file) >= Position(w)

(* A POST that was answered is in the session that is published, and no    *)
(* temporary file outlives its request unless the server died under it.    *)
RequestsLeaveNoTrace ==
    /\ \A w \in replied : post[w].dir = session /\ w \in Range(saves)
    /\ \A w \in temporary : post[w].at \in {"writing", "renaming", "lost"}

(* What a save may do to a directory: replace its response.json by a whole *)
(* file of the POST that opened it while its temporary name existed.  The  *)
(* session it belongs to is the one that was published.                    *)
SaveReplacesOnlyTheResponse ==
    [][\A d \in Publishers : response'[d] # response[d] =>
        /\ d = session /\ stage'[d] = stage[d]
        /\ response'[d] \in temporary \ temporary'
        /\ written[response'[d]] = "whole"]_vars
=============================================================================
