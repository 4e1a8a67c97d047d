---------------------------- MODULE PasswordReset ----------------------------
(***************************************************************************)
(* Reset of a forgotten password: services/resetPasswordService.js.        *)
(*                                                                         *)
(* A user asks for a code, which is stored in a document of ResetPassword  *)
(* and mailed; whoever presents the user's code sets the password.  Mongo  *)
(* removes a document some time after its createAt is Lifetime old.  Each  *)
(* awaited call is an action, and so is handing the code to the mailer,    *)
(* which may fail; the server may die between any two.  A request is made  *)
(* once and makes at most one document, which has the name of the request. *)
(***************************************************************************)
EXTENDS Integers, FiniteSets, Database

CONSTANTS
  Users,
  Mailed,       \* the users with an email; the others have a phone only
  ResetRequests, Tokens,
  Lifetime,     \* the 3600 s of `expires`, in steps of the clock
  MaxActive,    \* how many requests the server handles at one time
  MaxDeletes    \* bound: users deleted meanwhile

Document == [user : Users, token : Tokens, age : 0..Lifetime]
Issue == [code : Tokens, age : 0..Lifetime, mailed : BOOLEAN]

ASSUME ResetConstants ==
  /\ Mailed \subseteq Users
  /\ None \notin Users \cup ResetRequests \cup Tokens \cup Issue
  /\ Lifetime \in Nat \ {0} /\ MaxActive \in Nat \ {0} /\ MaxDeletes \in Nat

ResetRequest == [pc : {"new", "find", "insert", "overwrite", "mail", "check", "update",
                       "done"},
                 user : Users \cup {None}, code : Tokens \cup {None},
                 doc : ResetRequests \cup {None}]

VARIABLES
  docs,       \* [ResetRequests -> the document a request made, or None]
  password,   \* [Users -> the request that set the password last, or None]
  resetReq,   \* [ResetRequests -> the locals of a request]
  deleted,    \* the users that were deleted
  last,       \* history: [Users -> the code stored last for the user, the time
              \* since, and whether it left by mail; or None]
  issued,     \* history: the <<user, code>> pairs that were stored
  overlapped  \* history: the users who had two requests at one time

resetVars == <<docs, password, resetReq, deleted, last, issued, overlapped>>

NoResetRequest == [pc |-> "new", user |-> None, code |-> None, doc |-> None]
Active == {r \in ResetRequests : resetReq[r].pc \notin {"new", "done"}}
DocsOf(u) == {d \in ResetRequests : docs[d] # None /\ docs[d].user = u}
Goto(r, pc) == resetReq' = [resetReq EXCEPT ![r].pc = pc]
Stored(u, c) == \E d \in DocsOf(u) : docs[d].token = c

(* Slips a change to the code could make; no specification uses them. *)
AnyUsersToken(d, q) == docs[d].token = q.code
AnyToken(d, q) == docs[d].user = q.user
Unsaved(d, c) == docs[d]

-----------------------------------------------------------------------------
(* { token, userId } of resetPassword finds d. *)
TokenMatches(d, q) == docs[d].token = q.code /\ docs[d].user = q.user

(* new ResetPassword: createAt is the time of the insertion. *)
Fresh(u, c) == [user |-> u, token |-> c, age |-> 0]

(* A second request puts its code into the document and leaves createAt. *)
Overwritten(d, c) == [docs[d] EXCEPT !.token = c]

Issued(u, c) ==
  /\ issued' = issued \cup {<<u, c>>}
  /\ last' = [last EXCEPT ![u] = [code |-> c, age |-> 0, mailed |-> FALSE]]

ResetInit ==
  /\ docs = [d \in ResetRequests |-> None]
  /\ password = [u \in Users |-> None]
  /\ resetReq = [r \in ResetRequests |-> NoResetRequest]
  /\ deleted = {}
  /\ last = [u \in Users |-> None]
  /\ issued = {} /\ overlapped = {}

Begin(r, q) ==
  /\ resetReq[r].pc = "new" /\ Cardinality(Active) < MaxActive
  /\ resetReq' = [resetReq EXCEPT ![r] = q]
  /\ overlapped' = IF \E a \in Active : resetReq[a].user = q.user
                   THEN overlapped \cup {q.user} ELSE overlapped
  /\ UNCHANGED <<docs, password, deleted, last, issued>>

(* POST /: the user is found by email, phone or name. *)
CallRequest(r, u, c) ==
  /\ u \notin deleted
  /\ Begin(r, [pc |-> "find", user |-> u, code |-> c, doc |-> None])

FindDoc(r) ==
  /\ resetReq[r].pc = "find"
  /\ IF DocsOf(resetReq[r].user) = {} THEN Goto(r, "insert")
     ELSE \E d \in DocsOf(resetReq[r].user) :
            resetReq' = [resetReq EXCEPT ![r] =
              [pc |-> "overwrite", user |-> resetReq[r].user,
               code |-> resetReq[r].code, doc |-> d]]
  /\ UNCHANGED <<docs, password, deleted, last, issued, overlapped>>

InsertDoc(r) ==
  /\ resetReq[r].pc = "insert"
  /\ docs' = [docs EXCEPT ![r] = Fresh(resetReq[r].user, resetReq[r].code)]
  /\ Issued(resetReq[r].user, resetReq[r].code)
  /\ Goto(r, "mail")
  /\ UNCHANGED <<password, deleted, overlapped>>

(* save fails if the document has expired meanwhile: an error reply. *)
Overwrite(r) ==
  LET d == resetReq[r].doc IN
  /\ resetReq[r].pc = "overwrite"
  /\ IF docs[d] = None
     THEN /\ Goto(r, "done")
          /\ UNCHANGED <<docs, issued, last>>
     ELSE /\ docs' = [docs EXCEPT ![d] = Overwritten(d, resetReq[r].code)]
          /\ Issued(resetReq[r].user, resetReq[r].code)
          /\ Goto(r, "mail")
  /\ UNCHANGED <<password, deleted, overlapped>>

(* sendMail is not awaited, and its failure is logged only.  A code for a   *)
(* phone is never sent: axios is not imported here, and the request ends in *)
(* an error after the save.                                                 *)
SendCode(r) ==
  LET u == resetReq[r].user IN
  /\ resetReq[r].pc = "mail"
  /\ \/ /\ u \in Mailed /\ last[u].code = resetReq[r].code
        /\ last' = [last EXCEPT ![u].mailed = TRUE]
     \/ UNCHANGED last
  /\ Goto(r, "done")
  /\ UNCHANGED <<docs, password, deleted, issued, overlapped>>

(* POST /:email/:token.  A password that differs from its confirmation is   *)
(* refused without effect, as is an unknown code; checkToken (GET) reads    *)
(* and changes nothing.                                                     *)
CallReset(r, u, c) ==
  /\ u \notin deleted
  /\ Begin(r, [pc |-> "check", user |-> u, code |-> c, doc |-> None])

CheckToken(r) ==
  /\ resetReq[r].pc = "check"
  /\ IF \E d \in ResetRequests : docs[d] # None /\ TokenMatches(d, resetReq[r])
     THEN Goto(r, "update") ELSE Goto(r, "done")
  /\ UNCHANGED <<docs, password, deleted, last, issued, overlapped>>

(* findByIdAndUpdate; the call of delete() that follows throws, because     *)
(* mongoose documents have no such method: the document stays and the       *)
(* reply is an error, although the password is set.                         *)
UpdatePassword(r) ==
  LET u == resetReq[r].user IN
  /\ resetReq[r].pc = "update"
  /\ password' = IF u \in deleted THEN password ELSE [password EXCEPT ![u] = r]
  /\ Goto(r, "done")
  /\ UNCHANGED <<docs, deleted, last, issued, overlapped>>

Older(x) == IF x = None THEN None
            ELSE [x EXCEPT !.age = IF @ < Lifetime THEN @ + 1 ELSE @]

Tick ==
  /\ docs' = [d \in ResetRequests |-> Older(docs[d])]
  /\ last' = [u \in Users |-> Older(last[u])]
  /\ UNCHANGED <<password, resetReq, deleted, issued, overlapped>>

(* Mongo's TTL monitor, some time after the document is Lifetime old. *)
Expire(d) ==
  /\ docs[d] # None /\ docs[d].age = Lifetime
  /\ docs' = [docs EXCEPT ![d] = None]
  /\ UNCHANGED <<password, resetReq, deleted, last, issued, overlapped>>

(* deleteUser leaves the user's documents behind. *)
RemoveUser(u) ==
  /\ u \notin deleted /\ Cardinality(deleted) < MaxDeletes
  /\ deleted' = deleted \cup {u}
  /\ UNCHANGED <<docs, password, resetReq, last, issued, overlapped>>

(* The server dies: its requests end wherever they are, a code that is      *)
(* stored is never mailed, and a code that is checked sets no password.     *)
ResetCrash ==
  /\ Active # {}
  /\ resetReq' = [r \in ResetRequests |->
       IF r \in Active THEN [resetReq[r] EXCEPT !.pc = "done"] ELSE resetReq[r]]
  /\ UNCHANGED <<docs, password, deleted, last, issued, overlapped>>

ResetNext ==
  \/ \E r \in ResetRequests :
       \/ \E u \in Users, c \in Tokens : CallRequest(r, u, c) \/ CallReset(r, u, c)
       \/ FindDoc(r) \/ InsertDoc(r) \/ Overwrite(r) \/ SendCode(r)
       \/ CheckToken(r) \/ UpdatePassword(r)
       \/ Expire(r)
  \/ \E u \in Users : RemoveUser(u)
  \/ Tick
  \/ ResetCrash

ResetSpec == ResetInit /\ [][ResetNext]_resetVars

-----------------------------------------------------------------------------
(* Shape of the documents, codes and requests. *)
ResetTypeOK ==
  /\ docs \in [ResetRequests -> Document \cup {None}]
  /\ password \in [Users -> ResetRequests \cup {None}]
  /\ resetReq \in [ResetRequests -> ResetRequest]
  /\ deleted \subseteq Users /\ overlapped \subseteq Users
  /\ last \in [Users -> Issue \cup {None}]
  /\ issued \subseteq Users \X Tokens

(* However requests interleave, a password is only set with a code that was *)
(* issued to that very user.                                                *)
PasswordByIssuedCode ==
  \A u \in Users : password[u] # None =>
    <<u, resetReq[password[u]].code>> \in issued

(* A user who makes one request at a time sets the password with the code   *)
(* in force, if it has not expired between the check and the update.        *)
ResetByCurrentCode ==
  [][\A u \in Users \ overlapped :
       password'[u] # password[u] /\ DocsOf(u) # {}
       => Stored(u, resetReq[password'[u]].code)]_resetVars

(* A second request replaces the code of the first, although it looks for   *)
(* the document long before it writes: for a user who makes one request at  *)
(* a time, no code works but the one stored last.  A code from an earlier   *)
(* mail is dead even if the later one was never mailed, because mailing it  *)
(* failed or the server died first.                                         *)
OnlyLatestCodeWorks ==
  \A u \in Users \ overlapped : \A d \in DocsOf(u) :
    last[u] # None /\ docs[d].token = last[u].code

(* "This password reset code will expire in 60 minutes": the code mailed    *)
(* last to a user who makes one request at a time is in force until then.   *)
CodesLastAnHour ==
  \A u \in Users \ overlapped :
    last[u] # None /\ last[u].mailed /\ last[u].age < Lifetime
    => Stored(u, last[u].code)
=============================================================================
