---------------------------- MODULE AdminSession ----------------------------
(***************************************************************************)
(* Admin sessions: login, logout and the check every protected route makes,*)
(* one store statement per action, several requests at once, the process   *)
(* dying at any point.  A request carries a token some login has answered; *)
(* other tabs and requests under way carry it after a logout, too.         *)
(***************************************************************************)
EXTENDS KvStore

CONSTANTS
    Request,   \* requests that can be under way at once
    User,      \* what a session's payload names
    Nobody     \* no token

Token == Key

ASSUME AdminAssumption == Nobody \notin Token /\ User \in Value

VARIABLES
    req,       \* the requests under way
    deadline,  \* history: when the session of a token ends; 0 before its login
    issued,    \* history: tokens a login has answered
    leaving,   \* history: tokens a logout was asked for
    ended      \* history: tokens whose logout was answered

history == <<deadline, issued, leaving, ended>>
vars == <<kv, kvDisk, now, req, deadline, issued, leaving, ended>>

Free == [pc |-> "idle", token |-> Nobody, time |-> 0, late |-> "no"]

\* time: when the check began, or the expires_at a login will write.
\* late: whether the token's logout had been answered when the request came.
Busy == [pc : {"insert", "commitInsert", "select", "deleteExpired", "commitExpired",
               "deleteSession", "commitLogout", "accepted"},
         token : Token,
         time : 0..(MaxTime + Ttl),
         late : {"yes", "no"}]

TypeOK ==
    /\ KvTypeOK
    /\ req \in [Request -> Busy \cup {Free}]
    /\ deadline \in [Token -> 0..(MaxTime + Ttl)]
    /\ issued \subseteq Token
    /\ leaving \subseteq Token
    /\ ended \subseteq Token

Init ==
    /\ KvInit
    /\ req = [r \in Request |-> Free]
    /\ deadline = [k \in Token |-> 0]
    /\ issued = {}
    /\ leaving = {}
    /\ ended = {}

At(r, pc) == req[r].pc = pc
Goto(r, pc) == req' = [req EXCEPT ![r].pc = pc]
Finish(r) == req' = [req EXCEPT ![r] = Free]

-----------------------------------------------------------------------------
\* POST /auth/login

\* secrets.token_urlsafe never repeats a token.
Fresh(k) ==
    /\ deadline[k] = 0
    /\ \A r \in Request : req[r].token # k

\* The credentials are right.
Login(r, k) ==
    /\ At(r, "idle")
    /\ Fresh(k)
    /\ req' = [req EXCEPT ![r] =
                [pc |-> "insert", token |-> k, time |-> now + Ttl, late |-> "no"]]
    /\ deadline' = [deadline EXCEPT ![k] = now + Ttl]
    /\ UNCHANGED <<kvVars, issued, leaving, ended>>

Insert(r) ==
    /\ At(r, "insert")
    /\ PutEntry(req[r].token, User, req[r].time)
    /\ Goto(r, "commitInsert")
    /\ UNCHANGED history

\* Mutant: the session is saved without a commit.
MutCommitInsertForgotten(r) ==
    /\ At(r, "commitInsert")
    /\ issued' = issued \cup {req[r].token}
    /\ Finish(r)
    /\ UNCHANGED <<kvVars, deadline, leaving, ended>>

CommitInsert(r) ==
    /\ At(r, "commitInsert")
    /\ CommitEntries
    /\ issued' = issued \cup {req[r].token}
    /\ Finish(r)
    /\ UNCHANGED <<deadline, leaving, ended>>

-----------------------------------------------------------------------------
\* require_admin_auth and GET /auth/session

Check(r, k) ==
    /\ At(r, "idle")
    /\ k \in issued
    /\ req' = [req EXCEPT ![r] =
                [pc |-> "select", token |-> k, time |-> now,
                 late |-> IF k \in ended THEN "yes" ELSE "no"]]
    /\ UNCHANGED <<kvVars, history>>

\* Mutant: an entry past its end is deleted but the session is still used.
MutSelectAcceptsExpired(r) ==
    LET entry == kv[req[r].token] IN
    /\ At(r, "select")
    /\ IF entry = NoEntry THEN Finish(r) ELSE Goto(r, "accepted")
    /\ UNCHANGED <<kvVars, history>>

\* SELECT value, expires_at: no entry refuses the request.
Select(r) ==
    LET entry == kv[req[r].token] IN
    /\ At(r, "select")
    /\ IF entry = NoEntry THEN Finish(r)
       ELSE IF PastEnd(entry, req[r].time) THEN Goto(r, "deleteExpired")
       ELSE Goto(r, "accepted")
    /\ UNCHANGED <<kvVars, history>>

DeleteExpired(r) ==
    /\ At(r, "deleteExpired")
    /\ DropEntry(req[r].token)
    /\ Goto(r, "commitExpired")
    /\ UNCHANGED history

CommitExpired(r) ==
    /\ At(r, "commitExpired")
    /\ CommitEntries
    /\ Finish(r)
    /\ UNCHANGED history

\* The route runs and answers.
Served(r) ==
    /\ At(r, "accepted")
    /\ Finish(r)
    /\ UNCHANGED <<kvVars, history>>

-----------------------------------------------------------------------------
\* POST /auth/logout

\* Mutant: a logout does not look whether the request has a cookie.
MutLogoutWithoutCookie(r, k) ==
    /\ At(r, "idle")
    /\ req' = [req EXCEPT ![r] =
                [pc |-> "deleteSession", token |-> IF k \in issued THEN k ELSE Nobody,
                 time |-> now, late |-> "no"]]
    /\ UNCHANGED <<kvVars, deadline, issued, leaving, ended>>

Logout(r, k) ==
    /\ At(r, "idle")
    /\ k \in issued
    /\ req' = [req EXCEPT ![r] =
                [pc |-> "deleteSession", token |-> k, time |-> now, late |-> "no"]]
    /\ leaving' = leaving \cup {k}
    /\ UNCHANGED <<kvVars, deadline, issued, ended>>

DeleteSession(r) ==
    /\ At(r, "deleteSession")
    /\ DropEntry(req[r].token)
    /\ Goto(r, "commitLogout")
    /\ UNCHANGED history

\* Mutant: the deletion is not committed.
MutCommitLogoutForgotten(r) ==
    /\ At(r, "commitLogout")
    /\ ended' = ended \cup {req[r].token}
    /\ Finish(r)
    /\ UNCHANGED <<kvVars, deadline, issued, leaving>>

CommitLogout(r) ==
    /\ At(r, "commitLogout")
    /\ CommitEntries
    /\ ended' = ended \cup {req[r].token}
    /\ Finish(r)
    /\ UNCHANGED <<deadline, issued, leaving>>

-----------------------------------------------------------------------------
\* Another coroutine commits on the shared connection.
OtherCommit ==
    /\ CommitEntries
    /\ UNCHANGED <<req, history>>

Clock == Tick /\ UNCHANGED <<req, history>>

Crash ==
    /\ LoseUncommitted
    /\ req' = [r \in Request |-> Free]
    /\ UNCHANGED history

Next ==
    \/ \E r \in Request, k \in Token : Login(r, k) \/ Check(r, k) \/ Logout(r, k)
    \/ \E r \in Request : Insert(r) \/ CommitInsert(r)
    \/ \E r \in Request : Select(r) \/ DeleteExpired(r) \/ CommitExpired(r) \/ Served(r)
    \/ \E r \in Request : DeleteSession(r) \/ CommitLogout(r)
    \/ OtherCommit
    \/ Clock
    \/ Crash

Spec == Init /\ [][Next]_vars

-----------------------------------------------------------------------------
\* Properties

\* An answered logout is final: no check under way, no other request and no
\* crash brings the session back (delete_session, delete_admin_session).
LogoutFinal ==
    \A k \in ended : kv[k] = NoEntry /\ kvDisk[k] = NoEntry

\* A request is let in only with a session that had not ended when its check
\* began, neither by a logout answered before nor by its time to live
\* (get_admin_session reads the clock before it reads the row).
AcceptedHadSession ==
    \A r \in Request : At(r, "accepted") =>
        req[r].late = "no" /\ req[r].time <= deadline[req[r].token]

\* A token a login has answered stays good, crashes included, until its time
\* is over or a logout is asked for: no check of an older entry and no rolled
\* back transaction takes it away (save_admin_session commits before it returns).
LoginHolds ==
    \A k \in issued \ leaving : now <= deadline[k] =>
        kv[k] = [value |-> User, expires_at |-> deadline[k]] /\ kvDisk[k] = kv[k]
=============================================================================
