------------------------- MODULE PasswordResetProofs -------------------------
(***************************************************************************)
(* Safety of PasswordReset for any number of users, requests and codes,    *)
(* any lifetime and any number of requests at one time.                    *)
(***************************************************************************)
EXTENDS PasswordReset, TLAPS

Written == {"mail", "done"}

(* Two requests of one user at one time are remembered. *)
Alone ==
  \A r, s \in ResetRequests :
    /\ r # s /\ resetReq[r].user = resetReq[s].user
    /\ resetReq[r].pc \notin {"new", "done"} /\ resetReq[s].pc \notin {"new", "done"}
    => resetReq[r].user \in overlapped

(* What a request carries at each of its steps; the document d of a request *)
(* that is past its Insert is never made again.                             *)
Carries(r) ==
  /\ resetReq[r].pc # "new" => resetReq[r].user \in Users /\ resetReq[r].code \in Tokens
  /\ docs[r] # None => resetReq[r].pc \in Written
  /\ resetReq[r].pc = "update" => <<resetReq[r].user, resetReq[r].code>> \in issued
  /\ resetReq[r].pc = "mail" => last[resetReq[r].user] # None
  /\ resetReq[r].pc = "overwrite" =>
       LET d == resetReq[r].doc IN
       /\ d \in ResetRequests /\ resetReq[d].pc \in Written
       /\ docs[d] # None => docs[d].user = resetReq[r].user

(* The user of the request makes one request at a time: what the request    *)
(* knows of the user's documents is still true.                             *)
Current(r) ==
  resetReq[r].user \notin overlapped =>
    /\ resetReq[r].pc = "insert" => DocsOf(resetReq[r].user) = {}
    /\ resetReq[r].pc \in {"mail", "update"} =>
         \A d \in DocsOf(resetReq[r].user) : docs[d].token = resetReq[r].code

OneDocument ==
  \A u \in Users \ overlapped : \A d, e \in DocsOf(u) : d = e

StoredIsIssued ==
  \A d \in ResetRequests : docs[d] # None => <<docs[d].user, docs[d].token>> \in issued

PasswordIsSettled ==
  \A u \in Users : password[u] # None =>
    /\ resetReq[password[u]].pc = "done"
    /\ <<u, resetReq[password[u]].code>> \in issued

ResetInv ==
  /\ ResetTypeOK /\ Alone
  /\ \A r \in ResetRequests : Carries(r) /\ Current(r)
  /\ OneDocument /\ StoredIsIssued /\ PasswordIsSettled /\ OnlyLatestCodeWorks

(* Request r goes on to pc; nothing else about requests changes, except    *)
(* perhaps the document r has in hand.                                      *)
Moves(r, pc) ==
  /\ resetReq' \in [ResetRequests -> ResetRequest]
  /\ resetReq'[r].pc = pc
  /\ \A s \in ResetRequests :
       /\ resetReq'[s].user = resetReq[s].user /\ resetReq'[s].code = resetReq[s].code
       /\ s # r => resetReq'[s] = resetReq[s]

LEMMA GotoMoves ==
  ASSUME ResetTypeOK, NEW r \in ResetRequests, NEW pc \in {"insert", "mail", "update", "done"},
         Goto(r, pc)
  PROVE  Moves(r, pc) /\ resetReq'[r].doc = resetReq[r].doc
BY DEF ResetTypeOK, Goto, Moves, ResetRequest

LEMMA InitInv == ResetInit => ResetInv
<1> SUFFICES ASSUME ResetInit PROVE ResetInv
  OBVIOUS
<1>1. ResetTypeOK
  BY DEF ResetInit, ResetTypeOK, NoResetRequest, ResetRequest
<1>2. Alone /\ \A r \in ResetRequests : Carries(r) /\ Current(r)
  BY DEF ResetInit, Alone, Carries, Current, NoResetRequest
<1>3. OneDocument /\ StoredIsIssued /\ PasswordIsSettled /\ OnlyLatestCodeWorks
  BY DEF ResetInit, OneDocument, StoredIsIssued, PasswordIsSettled, OnlyLatestCodeWorks, DocsOf
<1> QED
  BY <1>1, <1>2, <1>3 DEF ResetInv

(* Begin: the request has no past, and overlaps are noted. *)
LEMMA BeginInv ==
  ASSUME ResetInv, NEW r \in ResetRequests, NEW u \in Users, NEW c \in Tokens,
         NEW pc \in {"find", "check"},
         Begin(r, [pc |-> pc, user |-> u, code |-> c, doc |-> None])
  PROVE  ResetInv'
<1> DEFINE q == [pc |-> pc, user |-> u, code |-> c, doc |-> None]
<1>1. ResetTypeOK'
  <2>1. q \in ResetRequest
    BY DEF ResetRequest
  <2> QED
    BY <2>1 DEF Begin, ResetInv, ResetTypeOK
<1>2. /\ resetReq[r].pc = "new" /\ resetReq'[r] = q
      /\ \A s \in ResetRequests : s # r => resetReq'[s] = resetReq[s]
      /\ overlapped \subseteq overlapped'
      /\ UNCHANGED <<docs, password, last, issued>>
  BY DEF Begin, ResetInv, ResetTypeOK
<1>3. \A s \in ResetRequests : resetReq[s].pc \notin {"new", "done"} /\ resetReq[s].user = u
                           => u \in overlapped'
  BY DEF Begin, Active
<1>4. Alone'
  BY <1>2, <1>3 DEF Alone, ResetInv
<1>5. ASSUME NEW s \in ResetRequests PROVE Carries(s)' /\ Current(s)'
  <2>1. Carries(s) /\ Current(s)
    BY DEF ResetInv
  <2>2. s = r \/ resetReq'[s] = resetReq[s]
    BY <1>2
  <2>3. Carries(s)'
    BY <1>2, <2>1, <2>2 DEF Carries, Written
  <2>4. CASE s = r
    BY <1>2, <2>3, <2>4 DEF Current
  <2>5. CASE s # r
    BY <1>2, <2>1, <2>2, <2>3, <2>5 DEF Current, DocsOf
  <2> QED
    BY <2>4, <2>5
<1>6. OneDocument' /\ StoredIsIssued' /\ OnlyLatestCodeWorks'
  BY <1>2 DEF OneDocument, StoredIsIssued, OnlyLatestCodeWorks, DocsOf, ResetInv
<1>7. PasswordIsSettled'
  BY <1>2 DEF PasswordIsSettled, ResetInv, ResetTypeOK
<1> QED
  BY <1>1, <1>4, <1>5, <1>6, <1>7 DEF ResetInv

LEMMA FindDocInv ==
  ASSUME ResetInv, NEW r \in ResetRequests, FindDoc(r)
  PROVE  ResetInv'
<1>1. /\ resetReq[r].pc = "find"
      /\ UNCHANGED <<docs, password, deleted, last, issued, overlapped>>
  BY DEF FindDoc
<1>2. \/ Moves(r, "insert") /\ DocsOf(resetReq[r].user) = {}
      \/ /\ Moves(r, "overwrite")
         /\ resetReq'[r].doc \in DocsOf(resetReq[r].user)
  BY GotoMoves DEF FindDoc, ResetInv, ResetTypeOK, Moves, ResetRequest, DocsOf
<1>3. ResetTypeOK'
  BY <1>1, <1>2 DEF ResetInv, ResetTypeOK, Moves
<1>4. Alone'
  BY <1>1, <1>2 DEF Alone, Moves, ResetInv
<1>5. ASSUME NEW s \in ResetRequests PROVE Carries(s)' /\ Current(s)'
  <2>1. Carries(s) /\ Current(s) /\ Carries(r)
    BY DEF ResetInv
  <2>2. \A d \in ResetRequests : resetReq[d].pc \in Written => resetReq'[d] = resetReq[d]
    BY <1>1, <1>2 DEF Moves, Written
  <2>3. CASE s = r
    <3>1. Carries(r)'
      <4>1. \A d \in DocsOf(resetReq[r].user) :
               /\ d \in ResetRequests /\ docs[d] # None /\ docs[d].user = resetReq[r].user
               /\ resetReq[d].pc \in Written
        BY DEF ResetInv, Carries, DocsOf
      <4> QED
        BY <1>1, <1>2, <2>1, <2>2, <4>1 DEF Carries, Moves, Written
    <3>2. Current(r)'
      BY <1>1, <1>2 DEF Current, Moves, DocsOf
    <3> QED
      BY <2>3, <3>1, <3>2
  <2>4. CASE s # r
    <3>1. resetReq'[s] = resetReq[s]
      BY <1>2, <2>4 DEF Moves
    <3>2. Carries(s)'
      BY <1>1, <2>1, <2>2, <3>1 DEF Carries
    <3>3. Current(s)'
      BY <1>1, <2>1, <3>1 DEF Current, DocsOf
    <3> QED
      BY <3>2, <3>3
  <2> QED
    BY <2>3, <2>4
<1>6. OneDocument' /\ StoredIsIssued' /\ OnlyLatestCodeWorks'
  BY <1>1, <1>2 DEF OneDocument, StoredIsIssued, OnlyLatestCodeWorks, DocsOf, Moves, ResetInv
<1>7. PasswordIsSettled'
  BY <1>1, <1>2 DEF PasswordIsSettled, Moves, ResetInv, ResetTypeOK
<1> QED
  BY <1>3, <1>4, <1>5, <1>6, <1>7 DEF ResetInv

(* A user who makes one request at a time: no other request is on its way.  *)
LEMMA OthersAreElsewhere ==
  ASSUME ResetInv, NEW r \in ResetRequests, NEW s \in ResetRequests, s # r,
         resetReq[r].pc \notin {"new", "done"}, resetReq[s].pc \notin {"new", "done"},
         resetReq[r].user \notin overlapped
  PROVE  resetReq[s].user # resetReq[r].user
BY DEF ResetInv, Alone

(* The code just stored is the one to remember. *)
LEMMA IssueRecorded ==
  ASSUME ResetTypeOK, NEW u \in Users, NEW c \in Tokens,
         last' = [last EXCEPT ![u] = [code |-> c, age |-> 0, mailed |-> FALSE]]
  PROVE  /\ last' \in [Users -> Issue \cup {None}]
         /\ last'[u] # None /\ last'[u].code = c
         /\ \A v \in Users : v # u => last'[v] = last[v]
<1>1. [code |-> c, age |-> 0, mailed |-> FALSE] \in Issue
  BY ResetConstants DEF Issue
<1> QED
  BY <1>1, ResetConstants DEF ResetTypeOK

LEMMA InsertInv ==
  ASSUME ResetInv, NEW r \in ResetRequests, InsertDoc(r)
  PROVE  ResetInv'
<1> DEFINE u == resetReq[r].user
           c == resetReq[r].code
<1>1. /\ resetReq[r].pc = "insert" /\ u \in Users /\ c \in Tokens
      /\ Carries(r) /\ Current(r) /\ Alone
      /\ UNCHANGED <<password, deleted, overlapped>>
      /\ issued' = issued \cup {<<u, c>>}
      /\ last' = [last EXCEPT ![u] = [code |-> c, age |-> 0, mailed |-> FALSE]]
  BY DEF InsertDoc, Issued, ResetInv, Carries
<1>2. Moves(r, "mail")
  BY GotoMoves DEF InsertDoc, ResetInv
<1>3. Fresh(u, c) \in Document /\ Fresh(u, c).user = u /\ Fresh(u, c).token = c
  BY <1>1, ResetConstants DEF Fresh, Document
<1>4. /\ docs' \in [ResetRequests -> Document \cup {None}]
      /\ docs'[r] = Fresh(u, c)
      /\ \A d \in ResetRequests : d # r => docs'[d] = docs[d]
  BY <1>3 DEF InsertDoc, ResetInv, ResetTypeOK
<1>5. /\ last' \in [Users -> Issue \cup {None}]
       /\ last'[u] # None /\ last'[u].code = c
       /\ \A v \in Users : v # u => last'[v] = last[v]
  BY <1>1, IssueRecorded DEF ResetInv
<1>6. ResetTypeOK'
  BY <1>1, <1>2, <1>4, <1>5 DEF ResetInv, ResetTypeOK, Moves
<1>7. Alone'
  BY <1>1, <1>2 DEF Alone, Moves
<1> HIDE DEF u, c
<1>8. ASSUME NEW s \in ResetRequests PROVE Carries(s)'
  <2>1. Carries(s)
    BY DEF ResetInv
  <2> QED
    BY <1>1, <1>2, <1>4, <1>5, <2>1 DEF Carries, Moves, Written, u
<1>9. ASSUME NEW s \in ResetRequests PROVE Current(s)'
  <2>1. Current(s) /\ resetReq'[s].user = resetReq[s].user
    BY <1>2 DEF ResetInv, Moves
  <2>2. CASE s = r
    BY <1>1, <1>2, <1>3, <1>4, <2>2 DEF Current, Moves, DocsOf, u, c
  <2>3. CASE s # r
    <3>1. resetReq[s].pc \in {"insert", "mail", "update"} /\ u \notin overlapped
          => resetReq[s].user # u
      BY <1>1, <2>3, OthersAreElsewhere DEF u
    <3> QED
      BY <1>1, <1>2, <1>3, <1>4, <2>1, <2>3, <3>1 DEF Current, Moves, DocsOf, u
  <2> QED
    BY <2>2, <2>3
<1>10. OneDocument'
  BY <1>1, <1>3, <1>4 DEF OneDocument, DocsOf, ResetInv, Current, u
<1>11. StoredIsIssued'
  BY <1>1, <1>3, <1>4 DEF StoredIsIssued, ResetInv
<1>12. PasswordIsSettled'
  BY <1>1, <1>2 DEF PasswordIsSettled, Moves, ResetInv, ResetTypeOK
<1>13. OnlyLatestCodeWorks'
  BY <1>1, <1>3, <1>4, <1>5 DEF OnlyLatestCodeWorks, DocsOf, Current, ResetInv, u
<1> QED
  BY <1>6, <1>7, <1>8, <1>9, <1>10, <1>11, <1>12, <1>13 DEF ResetInv

(* A request goes on and no document changes: all but what it now carries.  *)
LEMMA MoveInv ==
  ASSUME ResetInv, NEW r \in ResetRequests, NEW pc \in {"mail", "update", "done"},
         Moves(r, pc), resetReq'[r].doc = resetReq[r].doc,
         resetReq[r].pc \notin {"new", "done"}, resetReq[r].pc = "mail" => pc = "done",
         UNCHANGED <<docs, issued, overlapped>>,
         \A u \in Users : last[u] # None => last'[u] # None
  PROVE  /\ Alone' /\ OneDocument' /\ StoredIsIssued'
         /\ \A s \in ResetRequests : s # r => Carries(s)' /\ Current(s)'
         /\ resetReq' \in [ResetRequests -> ResetRequest]
         /\ \A d \in ResetRequests : resetReq[d].pc = "done" => resetReq'[d] = resetReq[d]
<1>1. Alone'
  BY DEF Alone, Moves, ResetInv
<1>2. OneDocument' /\ StoredIsIssued'
  BY DEF OneDocument, StoredIsIssued, DocsOf, ResetInv
<1>3. ASSUME NEW s \in ResetRequests, s # r PROVE Carries(s)' /\ Current(s)'
  <2>1. Carries(s) /\ Current(s) /\ resetReq'[s] = resetReq[s]
    BY <1>3 DEF Moves, ResetInv
  <2>2. \A d \in ResetRequests : resetReq[d].pc \in Written => resetReq'[d].pc \in Written
    BY DEF Moves, Written
  <2>3. Carries(s)'
    BY <2>1, <2>2 DEF Carries
  <2>4. Current(s)'
    BY <2>1 DEF Current, DocsOf
  <2> QED
    BY <2>3, <2>4
<1> QED
  BY <1>1, <1>2, <1>3 DEF Moves

LEMMA OverwriteInv ==
  ASSUME ResetInv, NEW r \in ResetRequests, Overwrite(r)
  PROVE  ResetInv'
<1> DEFINE u == resetReq[r].user
           c == resetReq[r].code
           k == resetReq[r].doc
<1>1. /\ resetReq[r].pc = "overwrite" /\ u \in Users /\ c \in Tokens /\ k \in ResetRequests
      /\ resetReq[k].pc \in Written /\ (docs[k] # None => docs[k].user = u)
      /\ Carries(r) /\ Alone
      /\ UNCHANGED <<password, deleted, overlapped>>
  BY DEF Overwrite, ResetInv, Carries
<1>2. CASE docs[k] = None
  <2>1. /\ UNCHANGED <<docs, issued, last>> /\ Moves(r, "done") /\ resetReq'[r].doc = resetReq[r].doc
    BY <1>1, <1>2, GotoMoves DEF Overwrite, ResetInv
  <2>2. /\ Alone' /\ OneDocument' /\ StoredIsIssued'
        /\ \A s \in ResetRequests : s # r => Carries(s)' /\ Current(s)'
        /\ resetReq' \in [ResetRequests -> ResetRequest]
        /\ \A d \in ResetRequests : resetReq[d].pc = "done" => resetReq'[d] = resetReq[d]
    BY <1>1, <2>1, MoveInv
  <2>3. Carries(r)' /\ Current(r)'
    BY <1>1, <2>1 DEF Carries, Current, Moves, Written
  <2>4. ResetTypeOK'
    BY <1>1, <2>1, <2>2 DEF ResetTypeOK, ResetInv
  <2>5. PasswordIsSettled'
    BY <1>1, <2>1, <2>2 DEF PasswordIsSettled, ResetInv, ResetTypeOK
  <2>6. OnlyLatestCodeWorks'
    BY <1>1, <2>1 DEF OnlyLatestCodeWorks, DocsOf, Moves, ResetInv
  <2> QED
    BY <2>2, <2>3, <2>4, <2>5, <2>6 DEF ResetInv
<1>3. CASE docs[k] # None
  <2>1. /\ Moves(r, "mail") /\ docs' = [docs EXCEPT ![k] = Overwritten(k, c)]
        /\ issued' = issued \cup {<<u, c>>}
        /\ last' = [last EXCEPT ![u] = [code |-> c, age |-> 0, mailed |-> FALSE]]
    BY <1>3, GotoMoves DEF Overwrite, Issued, ResetInv
  <2>2. docs[k] \in Document
    BY <1>1, <1>3 DEF ResetInv, ResetTypeOK
  <2>3. /\ Overwritten(k, c) \in Document
        /\ Overwritten(k, c).user = u /\ Overwritten(k, c).token = c
    BY <1>1, <1>3, <2>2 DEF Overwritten, Document
  <2>4. /\ docs' \in [ResetRequests -> Document \cup {None}]
        /\ docs'[k] = Overwritten(k, c)
        /\ \A d \in ResetRequests : d # k => docs'[d] = docs[d]
    BY <1>1, <2>1, <2>3 DEF ResetInv, ResetTypeOK
  <2>5. /\ last' \in [Users -> Issue \cup {None}]
         /\ last'[u] # None /\ last'[u].code = c
         /\ \A v \in Users : v # u => last'[v] = last[v]
    BY <1>1, <2>1, IssueRecorded DEF ResetInv
  <2>6. ResetTypeOK'
    BY <1>1, <2>1, <2>4, <2>5 DEF ResetInv, ResetTypeOK, Moves
  <2>7. Alone'
    BY <1>1, <2>1 DEF Alone, Moves
  <2> HIDE DEF u, c, k
  <2>8. ASSUME NEW s \in ResetRequests PROVE Carries(s)'
    <3>1. Carries(s)
      BY DEF ResetInv
    <3> QED
      BY <1>1, <1>3, <2>1, <2>3, <2>4, <2>5, <3>1 DEF Carries, Moves, Written, u
  <2>9. \A d \in ResetRequests : docs'[d] # None /\ docs'[d].user = u /\ u \notin overlapped
                             => d = k
    BY <1>1, <1>3, <2>3, <2>4 DEF ResetInv, OneDocument, DocsOf
  <2>10. ASSUME NEW s \in ResetRequests PROVE Current(s)'
    <3>1. Current(s) /\ resetReq'[s].user = resetReq[s].user
      BY <2>1 DEF ResetInv, Moves
    <3>2. CASE s = r
      BY <1>1, <2>1, <2>3, <2>4, <2>9, <3>2 DEF Current, Moves, DocsOf, u, c
    <3>3. CASE s # r
      <4>1. resetReq[s].pc \in {"insert", "mail", "update"} /\ u \notin overlapped
            => resetReq[s].user # u
        BY <1>1, <3>3, OthersAreElsewhere DEF u
      <4> QED
        BY <1>1, <1>3, <2>1, <2>3, <2>4, <3>1, <3>3, <4>1 DEF Current, Moves, DocsOf, u
    <3> QED
      BY <3>2, <3>3
  <2>11. OneDocument'
    BY <1>1, <1>3, <2>3, <2>4 DEF OneDocument, DocsOf, ResetInv
  <2>12. StoredIsIssued'
    BY <1>1, <2>1, <2>3, <2>4 DEF StoredIsIssued, ResetInv
  <2>13. PasswordIsSettled'
    BY <1>1, <2>1 DEF PasswordIsSettled, Moves, ResetInv, ResetTypeOK
  <2>14. OnlyLatestCodeWorks'
    BY <1>1, <1>3, <2>3, <2>4, <2>9, <2>5 DEF OnlyLatestCodeWorks, DocsOf, ResetInv, u
  <2> QED
    BY <2>6, <2>7, <2>8, <2>10, <2>11, <2>12, <2>13, <2>14 DEF ResetInv
<1> QED
  BY <1>2, <1>3

LEMMA SendCodeInv ==
  ASSUME ResetInv, NEW r \in ResetRequests, SendCode(r)
  PROVE  ResetInv'
<1> DEFINE u == resetReq[r].user
<1>1. /\ resetReq[r].pc = "mail" /\ u \in Users /\ resetReq[r].code \in Tokens
      /\ Carries(r) /\ Current(r)
      /\ \/ last' = [last EXCEPT ![u].mailed = TRUE]
         \/ last' = last
      /\ UNCHANGED <<docs, password, deleted, issued, overlapped>>
  BY DEF SendCode, ResetInv, Carries
<1>2. Moves(r, "done") /\ resetReq'[r].doc = resetReq[r].doc
  BY GotoMoves DEF SendCode, ResetInv
<1>3. last[u] # None
  BY <1>1 DEF Carries
<1>4. /\ last' \in [Users -> Issue \cup {None}]
      /\ \A v \in Users : last[v] # None => last'[v] # None /\ last'[v].code = last[v].code
  <2>1. last \in [Users -> Issue \cup {None}]
    BY DEF ResetInv, ResetTypeOK
  <2>2. [last[u] EXCEPT !.mailed = TRUE] \in Issue
        /\ [last[u] EXCEPT !.mailed = TRUE].code = last[u].code
    BY <1>1, <1>3, <2>1 DEF Issue
  <2> HIDE DEF u
  <2> QED
    BY <1>1, <2>1, <2>2, ResetConstants
<1>5. /\ Alone' /\ OneDocument' /\ StoredIsIssued'
      /\ \A s \in ResetRequests : s # r => Carries(s)' /\ Current(s)'
      /\ resetReq' \in [ResetRequests -> ResetRequest]
      /\ \A d \in ResetRequests : resetReq[d].pc = "done" => resetReq'[d] = resetReq[d]
  BY <1>1, <1>2, <1>4, MoveInv
<1>6. Carries(r)' /\ Current(r)'
  BY <1>1, <1>2 DEF Carries, Current, Moves, Written
<1>7. ResetTypeOK'
  BY <1>1, <1>5, <1>4 DEF ResetTypeOK, ResetInv
<1>8. PasswordIsSettled'
  BY <1>1, <1>5 DEF PasswordIsSettled, ResetInv, ResetTypeOK
<1>9. OnlyLatestCodeWorks'
  BY <1>1, <1>4 DEF OnlyLatestCodeWorks, DocsOf, ResetInv
<1> QED
  BY <1>5, <1>6, <1>7, <1>8, <1>9 DEF ResetInv

LEMMA CheckTokenInv ==
  ASSUME ResetInv, NEW r \in ResetRequests, CheckToken(r)
  PROVE  ResetInv'
<1>1. /\ resetReq[r].pc = "check"
      /\ UNCHANGED <<docs, password, deleted, last, issued, overlapped>>
      /\ Carries(r)
  BY DEF CheckToken, ResetInv
<1>2. /\ resetReq'[r].doc = resetReq[r].doc
      /\ \/ Moves(r, "done")
         \/ /\ Moves(r, "update")
            /\ \E d \in ResetRequests : docs[d] # None /\ TokenMatches(d, resetReq[r])
  BY GotoMoves DEF CheckToken, ResetInv
<1>3. /\ Alone' /\ OneDocument' /\ StoredIsIssued'
      /\ \A s \in ResetRequests : s # r => Carries(s)' /\ Current(s)'
      /\ resetReq' \in [ResetRequests -> ResetRequest]
      /\ \A d \in ResetRequests : resetReq[d].pc = "done" => resetReq'[d] = resetReq[d]
  BY <1>1, <1>2, MoveInv
<1>4. resetReq'[r].pc = "update" =>
        /\ <<resetReq[r].user, resetReq[r].code>> \in issued
        /\ resetReq[r].user \notin overlapped =>
             \A d \in DocsOf(resetReq[r].user) : docs[d].token = resetReq[r].code
  <2> SUFFICES ASSUME resetReq'[r].pc = "update"
               PROVE  /\ <<resetReq[r].user, resetReq[r].code>> \in issued
                      /\ resetReq[r].user \notin overlapped =>
                           \A d \in DocsOf(resetReq[r].user) : docs[d].token = resetReq[r].code
    OBVIOUS
  <2>1. PICK k \in ResetRequests : docs[k] # None /\ TokenMatches(k, resetReq[r])
    BY <1>2 DEF Moves
  <2>2. docs[k].token = resetReq[r].code /\ docs[k].user = resetReq[r].user
    BY <2>1 DEF TokenMatches
  <2> QED
    BY <1>1, <2>1, <2>2 DEF ResetInv, StoredIsIssued, OneDocument, DocsOf, Carries
<1>5. Carries(r)'
  BY <1>1, <1>2, <1>4 DEF Carries, Moves, Written
<1>6. Current(r)'
  BY <1>1, <1>2, <1>4 DEF Current, Moves, DocsOf
<1>7. ResetTypeOK'
  BY <1>1, <1>3 DEF ResetTypeOK, ResetInv
<1>8. PasswordIsSettled'
  BY <1>1, <1>3 DEF PasswordIsSettled, ResetInv, ResetTypeOK
<1>9. OnlyLatestCodeWorks'
  BY <1>1, <1>2 DEF OnlyLatestCodeWorks, DocsOf, Moves, ResetInv
<1> QED
  BY <1>3, <1>5, <1>6, <1>7, <1>8, <1>9 DEF ResetInv

LEMMA UpdatePasswordInv ==
  ASSUME ResetInv, NEW r \in ResetRequests, UpdatePassword(r)
  PROVE  ResetInv'
<1> DEFINE u == resetReq[r].user
<1>1. /\ resetReq[r].pc = "update" /\ u \in Users /\ <<u, resetReq[r].code>> \in issued
      /\ password' = IF u \in deleted THEN password ELSE [password EXCEPT ![u] = r]
      /\ UNCHANGED <<docs, deleted, last, issued, overlapped>>
      /\ Carries(r)
  BY DEF UpdatePassword, ResetInv, Carries
<1>2. Moves(r, "done") /\ resetReq'[r].doc = resetReq[r].doc
  BY GotoMoves DEF UpdatePassword, ResetInv
<1>3. /\ Alone' /\ OneDocument' /\ StoredIsIssued'
      /\ \A s \in ResetRequests : s # r => Carries(s)' /\ Current(s)'
      /\ resetReq' \in [ResetRequests -> ResetRequest]
      /\ \A d \in ResetRequests : resetReq[d].pc = "done" => resetReq'[d] = resetReq[d]
  BY <1>1, <1>2, MoveInv
<1>4. Carries(r)' /\ Current(r)'
  BY <1>1, <1>2 DEF Carries, Current, Moves, Written
<1>5. ResetTypeOK'
  BY <1>1, <1>3 DEF ResetTypeOK, ResetInv
<1>6. ASSUME NEW v \in Users, password'[v] # None
      PROVE  resetReq'[password'[v]].pc = "done" /\ <<v, resetReq'[password'[v]].code>> \in issued
  <2>1. password \in [Users -> ResetRequests \cup {None}]
    BY DEF ResetInv, ResetTypeOK
  <2>2. CASE password'[v] = password[v]
    BY <1>3, <1>6, <2>1, <2>2 DEF ResetInv, PasswordIsSettled
  <2>3. CASE password'[v] # password[v]
    <3>1. v = u /\ password'[v] = r
      BY <1>1, <2>1, <2>3
    <3> QED
      BY <1>1, <1>2, <3>1 DEF Moves
  <2> QED
    BY <2>2, <2>3
<1>7. PasswordIsSettled'
  BY <1>1, <1>6 DEF PasswordIsSettled
<1>8. OnlyLatestCodeWorks'
  BY <1>1, <1>2 DEF OnlyLatestCodeWorks, DocsOf, Moves, ResetInv
<1> QED
  BY <1>3, <1>4, <1>5, <1>7, <1>8 DEF ResetInv

(* Time and deletions: documents may go or age, but none changes its code.  *)
LEMMA OlderType ==
  ASSUME ResetTypeOK
  PROVE  /\ \A d \in ResetRequests : docs[d] # None =>
              /\ Older(docs[d]) \in Document
              /\ Older(docs[d]).user = docs[d].user /\ Older(docs[d]).token = docs[d].token
         /\ \A u \in Users : last[u] # None =>
              Older(last[u]) \in Issue /\ Older(last[u]).code = last[u].code
         /\ Older(None) = None
BY ResetConstants DEF ResetTypeOK, Older, Document, Issue

LEMMA QuietStepInv ==
  ASSUME ResetInv, UNCHANGED <<password, resetReq, issued, overlapped>>,
         deleted' \subseteq Users,
         docs' \in [ResetRequests -> Document \cup {None}],
         last' \in [Users -> Issue \cup {None}],
         \A d \in ResetRequests : docs'[d] # None =>
           /\ docs[d] # None
           /\ docs'[d].user = docs[d].user /\ docs'[d].token = docs[d].token,
         \A u \in Users : last[u] # None => last'[u] # None /\ last'[u].code = last[u].code
  PROVE  ResetInv'
<1>1. ResetTypeOK' /\ Alone' /\ PasswordIsSettled'
  BY DEF ResetInv, ResetTypeOK, Alone, PasswordIsSettled
<1>2. ASSUME NEW s \in ResetRequests PROVE Carries(s)' /\ Current(s)'
  <2>1. Carries(s) /\ Current(s)
    BY DEF ResetInv
  <2> QED
    BY <2>1 DEF Carries, Current, DocsOf
<1>3. OneDocument' /\ StoredIsIssued'
  BY DEF ResetInv, OneDocument, StoredIsIssued, DocsOf
<1>4. OnlyLatestCodeWorks'
  BY ResetConstants DEF ResetInv, OnlyLatestCodeWorks, DocsOf
<1> QED
  BY <1>1, <1>2, <1>3, <1>4 DEF ResetInv

LEMMA TickInv ==
  ASSUME ResetInv, Tick
  PROVE  ResetInv'
<1>1. ResetTypeOK
  BY DEF ResetInv
<1>2. \A d \in ResetRequests : docs[d] = None => docs'[d] = None
  BY <1>1, OlderType DEF Tick
<1>3. \A d \in ResetRequests : docs[d] # None =>
        /\ docs'[d] \in Document
        /\ docs'[d].user = docs[d].user /\ docs'[d].token = docs[d].token
  BY <1>1, OlderType DEF Tick
<1>4. \A u \in Users :
        /\ last[u] # None => last'[u] \in Issue /\ last'[u].code = last[u].code
        /\ last[u] = None => last'[u] = None
  BY <1>1, OlderType DEF Tick
<1>5. \A u \in Users : last[u] # None => last'[u] # None
  BY <1>4, ResetConstants
<1>6. docs' \in [ResetRequests -> Document \cup {None}] /\ last' \in [Users -> Issue \cup {None}]
  BY <1>2, <1>3, <1>4 DEF Tick
<1> QED
  BY <1>1, <1>2, <1>3, <1>4, <1>5, <1>6, QuietStepInv DEF Tick, ResetTypeOK

LEMMA ExpireInv ==
  ASSUME ResetInv, NEW d \in ResetRequests, Expire(d)
  PROVE  ResetInv'
BY QuietStepInv DEF Expire, ResetInv, ResetTypeOK

LEMMA DeleteUserInv ==
  ASSUME ResetInv, NEW u \in Users, RemoveUser(u)
  PROVE  ResetInv'
BY QuietStepInv DEF RemoveUser, ResetInv, ResetTypeOK

(* The requests that were under way are over; nothing else changes. *)
LEMMA CrashInv ==
  ASSUME ResetInv, ResetCrash
  PROVE  ResetInv'
<1>1. /\ resetReq' \in [ResetRequests -> ResetRequest]
      /\ \A s \in ResetRequests :
           /\ resetReq'[s].user = resetReq[s].user /\ resetReq'[s].code = resetReq[s].code
           /\ resetReq[s].pc = "new" => resetReq'[s] = resetReq[s]
           /\ resetReq[s].pc # "new" => resetReq'[s].pc = "done"
      /\ UNCHANGED <<docs, password, deleted, last, issued, overlapped>>
  BY DEF ResetCrash, Active, ResetInv, ResetTypeOK, ResetRequest
<1>2. ResetTypeOK'
  BY <1>1 DEF ResetInv, ResetTypeOK
<1>3. Alone'
  BY <1>1 DEF Alone
<1>4. ASSUME NEW s \in ResetRequests PROVE Carries(s)' /\ Current(s)'
  <2>1. Carries(s) /\ Current(s)
    BY DEF ResetInv
  <2> QED
    BY <1>1, <2>1 DEF Carries, Current, Written
<1>5. OneDocument' /\ StoredIsIssued' /\ OnlyLatestCodeWorks'
  BY <1>1 DEF ResetInv, OneDocument, StoredIsIssued, OnlyLatestCodeWorks, DocsOf
<1>6. PasswordIsSettled'
  BY <1>1 DEF ResetInv, PasswordIsSettled, ResetTypeOK
<1> QED
  BY <1>2, <1>3, <1>4, <1>5, <1>6 DEF ResetInv

LEMMA StepInv == ResetInv /\ [ResetNext]_resetVars => ResetInv'
<1> SUFFICES ASSUME ResetInv, [ResetNext]_resetVars PROVE ResetInv'
  OBVIOUS
<1>1. ASSUME NEW r \in ResetRequests, NEW u \in Users, NEW c \in Tokens,
             CallRequest(r, u, c) \/ CallReset(r, u, c)
      PROVE  ResetInv'
  BY <1>1, BeginInv DEF CallRequest, CallReset
<1>2. ASSUME NEW r \in ResetRequests,
             \/ FindDoc(r) \/ InsertDoc(r) \/ Overwrite(r) \/ SendCode(r)
             \/ CheckToken(r) \/ UpdatePassword(r) \/ Expire(r)
      PROVE  ResetInv'
  BY <1>2, FindDocInv, InsertInv, OverwriteInv, SendCodeInv, CheckTokenInv,
     UpdatePasswordInv, ExpireInv
<1>3. CASE UNCHANGED resetVars
  BY <1>3, QuietStepInv DEF resetVars, ResetInv, ResetTypeOK
<1> QED
  BY <1>1, <1>2, <1>3, TickInv, DeleteUserInv, CrashInv DEF ResetNext

(* The fields of documents, mails and requests keep their types, for any    *)
(* number of requests and any lifetime of the codes.                        *)
THEOREM ResetTypeCorrect == ResetSpec => []ResetTypeOK
<1>1. ResetInv => ResetTypeOK
  BY DEF ResetInv
<1> QED
  BY InitInv, StepInv, <1>1, PTL DEF ResetSpec

(* However requests and resets of all users interleave, a password is only  *)
(* set with a code that was issued to that user.                            *)
THEOREM PasswordsSetByIssuedCode == ResetSpec => []PasswordByIssuedCode
<1>1. ResetInv => PasswordByIssuedCode
  BY DEF ResetInv, PasswordIsSettled, PasswordByIssuedCode
<1> QED
  BY InitInv, StepInv, <1>1, PTL DEF ResetSpec

(* The second request overwrites the code of the first: for users who make  *)
(* one request at a time only the code stored last is in force, whatever    *)
(* mails were lost and however often the server died.                       *)
THEOREM LatestCodeOnly == ResetSpec => []OnlyLatestCodeWorks
<1>1. ResetInv => OnlyLatestCodeWorks
  BY DEF ResetInv
<1> QED
  BY InitInv, StepInv, <1>1, PTL DEF ResetSpec

(* The code checked is still the code in force when the password is set,    *)
(* for users who make one request at a time.                                *)
THEOREM ResetsUseCurrentCode == ResetSpec => ResetByCurrentCode
<1> DEFINE Current1 == \A u \in Users \ overlapped :
                         password'[u] # password[u] /\ DocsOf(u) # {}
                         => Stored(u, resetReq[password'[u]].code)
<1>1. ResetInv /\ [ResetNext]_resetVars => [Current1]_resetVars
  <2> SUFFICES ASSUME ResetInv, [ResetNext]_resetVars, NEW u \in Users \ overlapped,
                      password'[u] # password[u], DocsOf(u) # {}
               PROVE  Stored(u, resetReq[password'[u]].code)
    BY DEF Current1
  <2>1. PICK r \in ResetRequests : UpdatePassword(r)
    BY DEF ResetNext, resetVars, CallRequest, CallReset, Begin, FindDoc, InsertDoc, Overwrite,
           SendCode, CheckToken, Expire, RemoveUser, Tick, ResetCrash
  <2>2. /\ resetReq[r].pc = "update" /\ resetReq[r].user = u /\ password'[u] = r
        /\ Current(r)
    BY <2>1 DEF UpdatePassword, ResetInv, ResetTypeOK
  <2>3. PICK d \in DocsOf(u) : TRUE
    OBVIOUS
  <2> QED
    BY <2>2, <2>3 DEF Current, Stored
<1> QED
  BY InitInv, StepInv, <1>1, PTL DEF ResetSpec, ResetByCurrentCode
=============================================================================
