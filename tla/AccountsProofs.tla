--------------------------- MODULE AccountsProofs ---------------------------
(***************************************************************************)
(* Safety of Accounts for any number of requests, contacts, names, codes,  *)
(* profile updates and crashes: type correctness, unique names, contacts   *)
(* that only overlapping registrations share, verified for good.           *)
(***************************************************************************)
EXTENDS Accounts, TLAPS

(* What a request carries at each of its steps. *)
Carries(r) ==
  /\ accountReq[r].pc \in {"checkContact", "checkName", "insert"}
       => accountReq[r].name \in Names /\ (accountReq[r].email # None \/ accountReq[r].phone # None)
  /\ accountReq[r].pc = "insert" => accountReq[r].code \in Codes
  /\ accountReq[r].pc = "saveCode" => accountReq[r].user \in AccountRequests /\ accountReq[r].code \in Codes

(* A request that is not done has made no account, and none was seen. *)
Unborn(r) ==
  accountReq[r].pc # "done" => users[r] = None /\ \A v \in AccountRequests : r \notin seen[v]

(* The registration r is about to take the contact of account v. *)
Clash(r, v) ==
  \/ accountReq[r].email # None /\ accountReq[r].email = users[v].email
  \/ /\ accountReq[r].email = None /\ users[v].email = None
     /\ accountReq[r].phone = users[v].phone

(* A registration past its check clashes with no account it saw then. *)
Checked(r) ==
  accountReq[r].pc \in {"checkName", "insert"} =>
    \A v \in (seen[r] \cap Existing) \ moved : ~Clash(r, v)

AccountsInv ==
  /\ AccountTypeOK
  /\ \A r \in AccountRequests : Carries(r) /\ Unborn(r) /\ Checked(r)
  /\ NamesUnique
  /\ ContactSharedByRaceOnly

LEMMA DoneIsRequest == NoAccountRequest \in AccountRequest /\ AccountDone \in AccountRequest /\ AccountDone.pc = "done"
BY DEF NoAccountRequest, AccountDone, AccountRequest

(* The steps of the system one by one. *)
LEMMA StepCases ==
  ASSUME [AccountNext]_accountVars
  PROVE  \/ \E r \in AccountRequests : \/ CheckContact(r) \/ SaveAccount(r) \/ ReadVerify(r)
                               \/ SaveCode(r) \/ SaveVerified(r) \/ DeleteUser(r)
         \/ \E r \in AccountRequests, c \in Codes : CheckName(r, c) \/ ReadResend(r, c)
         \/ \E r \in AccountRequests, e \in Emails \cup {None}, p \in Phones \cup {None},
              n \in Names, role \in Roles, g \in BOOLEAN : CallRegister(r, e, p, n, role, g)
         \/ \E r \in AccountRequests, e \in Emails, c \in Codes : CallVerify(r, e, c)
         \/ \E r \in AccountRequests, k \in Emails \cup Phones \cup Names : CallResend(r, k)
         \/ \E u \in AccountRequests, e \in Emails \cup {None}, p \in Phones \cup {None},
              n \in Names : UpdateUser(u, e, p, n)
         \/ AccountCrash
         \/ UNCHANGED accountVars
BY DEF AccountNext, AccountCall, AccountStep, Edit

LEMMA InitInv == AccountInit => AccountsInv
<1> SUFFICES ASSUME AccountInit PROVE AccountsInv
  OBVIOUS
<1>1. Existing = {}
  BY DEF AccountInit, Existing
<1>2. AccountTypeOK
  BY DoneIsRequest, AccountConstants DEF AccountInit, AccountTypeOK
<1>3. \A r \in AccountRequests : Carries(r) /\ Unborn(r) /\ Checked(r)
  BY DEF AccountInit, Carries, Unborn, Checked, NoAccountRequest
<1> QED
  BY <1>1, <1>2, <1>3 DEF AccountsInv, NamesUnique, ContactSharedByRaceOnly

(* The accounts stay accounts whatever a step writes. *)
LEMMA StepUsers ==
  AccountsInv /\ [AccountNext]_accountVars => users' \in [AccountRequests -> User \cup {None}]
<1> SUFFICES ASSUME AccountsInv, [AccountNext]_accountVars
             PROVE  users' \in [AccountRequests -> User \cup {None}]
  OBVIOUS
<1>a. users \in [AccountRequests -> User \cup {None}]
  BY DEF AccountsInv, AccountTypeOK
<1>1. ASSUME NEW r \in AccountRequests, SaveAccount(r)
      PROVE  users' \in [AccountRequests -> User \cup {None}]
  <2>1. accountReq[r] \in AccountRequest /\ accountReq[r].pc = "insert" /\ Carries(r)
    BY <1>1 DEF SaveAccount, AccountsInv, AccountTypeOK
  <2>2. Account(accountReq[r]) \in User
    BY <2>1 DEF Account, User, AccountRequest, Carries
  <2> QED
    BY <1>1, <1>a, <2>2 DEF SaveAccount
<1>2. ASSUME NEW u \in AccountRequests, SaveVerified(u)
      PROVE  users' \in [AccountRequests -> User \cup {None}]
  <2>1. u \in Existing => Verified(u) \in User
    BY <1>a DEF Existing, Verified, User
  <2> QED
    BY <1>2, <1>a, <2>1 DEF SaveVerified
<1>3. ASSUME NEW r \in AccountRequests, SaveCode(r)
      PROVE  users' \in [AccountRequests -> User \cup {None}]
  <2>1. accountReq[r].user \in AccountRequests /\ accountReq[r].code \in Codes
    BY <1>3 DEF SaveCode, AccountsInv, Carries
  <2>2. accountReq[r].user \in Existing => WithCode(r) \in User
    BY <1>a, <2>1 DEF Existing, WithCode, User
  <2> QED
    BY <1>3, <1>a, <2>2 DEF SaveCode
<1>4. ASSUME NEW u \in AccountRequests, NEW e \in Emails \cup {None},
             NEW p \in Phones \cup {None}, NEW n \in Names, UpdateUser(u, e, p, n)
      PROVE  users' \in [AccountRequests -> User \cup {None}]
  <2> DEFINE d == [users[u] EXCEPT !.email = e, !.phone = p, !.name = n]
  <2>1. d \in User
    BY <1>4, <1>a DEF UpdateUser, Existing, User
  <2>2. users' = [users EXCEPT ![u] = d]
    BY <1>4, <1>a DEF UpdateUser
  <2> QED
    <3> HIDE DEF d
    <3> QED BY <1>a, <2>1, <2>2
<1>5. ASSUME NEW u \in AccountRequests, DeleteUser(u)
      PROVE  users' \in [AccountRequests -> User \cup {None}]
  BY <1>5, <1>a DEF DeleteUser
<1>6. UNCHANGED users => users' \in [AccountRequests -> User \cup {None}]
  BY <1>a
<1> QED
  BY <1>1, <1>2, <1>3, <1>4, <1>5, <1>6, StepCases
     DEF accountVars, CallRegister, CallVerify, CallResend, CheckContact, CheckName, ReadVerify,
         ReadResend, AccountCrash

(* Requests stay requests whatever a step leaves them. *)
LEMMA StepReq == AccountsInv /\ [AccountNext]_accountVars => accountReq' \in [AccountRequests -> AccountRequest]
<1> SUFFICES ASSUME AccountsInv, [AccountNext]_accountVars PROVE accountReq' \in [AccountRequests -> AccountRequest]
  OBVIOUS
<1>a. accountReq \in [AccountRequests -> AccountRequest] /\ users \in [AccountRequests -> User \cup {None}]
  BY DEF AccountsInv, AccountTypeOK
<1>b. ASSUME NEW r \in AccountRequests, End(r) PROVE accountReq' \in [AccountRequests -> AccountRequest]
  BY <1>a, <1>b, DoneIsRequest DEF End
<1>c. ASSUME NEW r \in AccountRequests, NEW q \in AccountRequest, accountReq' = [accountReq EXCEPT ![r] = q]
      PROVE  accountReq' \in [AccountRequests -> AccountRequest]
  BY <1>a, <1>c
<1>1. ASSUME NEW r \in AccountRequests, NEW e \in Emails \cup {None},
             NEW p \in Phones \cup {None}, NEW n \in Names, NEW role \in Roles,
             NEW g \in BOOLEAN, CallRegister(r, e, p, n, role, g)
      PROVE  accountReq' \in [AccountRequests -> AccountRequest]
  <2> DEFINE q == [NoAccountRequest EXCEPT !.pc = "checkContact", !.email = e, !.phone = p,
                                    !.name = n, !.role = role, !.google = g]
  <2>1. q \in AccountRequest
    BY DEF NoAccountRequest, AccountRequest
  <2> QED
    BY <1>1, <1>c, <2>1 DEF CallRegister
<1>2. ASSUME NEW r \in AccountRequests, NEW e \in Emails, NEW c \in Codes, CallVerify(r, e, c)
      PROVE  accountReq' \in [AccountRequests -> AccountRequest]
  <2> DEFINE q == [NoAccountRequest EXCEPT !.pc = "readVerify", !.email = e, !.code = c]
  <2>1. q \in AccountRequest
    BY DEF NoAccountRequest, AccountRequest
  <2> QED
    BY <1>2, <1>c, <2>1 DEF CallVerify
<1>3. ASSUME NEW r \in AccountRequests, NEW k \in Emails \cup Phones \cup Names,
             CallResend(r, k)
      PROVE  accountReq' \in [AccountRequests -> AccountRequest]
  <2> DEFINE e == IF k \in Emails THEN k ELSE None
             p == IF k \in Phones THEN k ELSE None
             n == IF k \in Names THEN k ELSE None
             q == [NoAccountRequest EXCEPT !.pc = "readResend", !.email = e, !.phone = p,
                                    !.name = n]
  <2>1. e \in Emails \cup {None} /\ p \in Phones \cup {None} /\ n \in Names \cup {None}
    OBVIOUS
  <2>2. accountReq' = [accountReq EXCEPT ![r] = q]
    BY <1>3 DEF CallResend
  <2>3. q \in AccountRequest
    <3> HIDE DEF e, p, n
    <3> QED BY <2>1 DEF NoAccountRequest, AccountRequest
  <2> QED
    BY <1>c, <2>2, <2>3
<1>4. ASSUME NEW r \in AccountRequests, CheckContact(r) PROVE accountReq' \in [AccountRequests -> AccountRequest]
  <2>1. [accountReq[r] EXCEPT !.pc = "checkName"] \in AccountRequest
    BY <1>a DEF AccountRequest
  <2> QED
    BY <1>4, <1>a, <1>b, <2>1 DEF CheckContact
<1>5. ASSUME NEW r \in AccountRequests, NEW c \in Codes, CheckName(r, c)
      PROVE  accountReq' \in [AccountRequests -> AccountRequest]
  <2> DEFINE q == [accountReq[r] EXCEPT !.pc = "insert", !.code = c]
  <2>1. q \in AccountRequest
    BY <1>a DEF AccountRequest
  <2>2. End(r) \/ accountReq' = [accountReq EXCEPT ![r] = q]
    BY <1>5, <1>a DEF CheckName
  <2> QED
    <3> HIDE DEF q
    <3> QED BY <1>b, <1>c, <2>1, <2>2
<1>6. ASSUME NEW r \in AccountRequests, NEW c \in Codes, ReadResend(r, c)
      PROVE  accountReq' \in [AccountRequests -> AccountRequest]
  <2>1. CASE End(r)
    BY <1>b, <2>1
  <2>2. CASE ~End(r)
    <3>1. PICK u \in Existing :
            accountReq' = [accountReq EXCEPT ![r].pc = "saveCode", ![r].user = u, ![r].code = c]
      BY <1>6, <2>2 DEF ReadResend
    <3> DEFINE q == [accountReq[r] EXCEPT !.pc = "saveCode", !.user = u, !.code = c]
    <3>2. q \in AccountRequest
      BY <1>a DEF AccountRequest, Existing
    <3>3. accountReq' = [accountReq EXCEPT ![r] = q]
      BY <1>a, <3>1
    <3> QED
      <4> HIDE DEF q
      <4> QED BY <1>c, <3>2, <3>3
  <2> QED
    BY <2>1, <2>2
<1>7. ASSUME NEW r \in AccountRequests, SaveVerified(r) PROVE accountReq' \in [AccountRequests -> AccountRequest]
  BY <1>7, <1>a, DoneIsRequest DEF SaveVerified
<1>8. CASE AccountCrash
  BY <1>8, <1>a, DoneIsRequest DEF AccountCrash
<1>9. ASSUME NEW r \in AccountRequests, SaveAccount(r) \/ ReadVerify(r) \/ SaveCode(r)
      PROVE  accountReq' \in [AccountRequests -> AccountRequest]
  <2>1. End(r)
    BY <1>9 DEF SaveAccount, ReadVerify, SaveCode
  <2> QED
    BY <1>b, <2>1
<1>10. ASSUME NEW u \in AccountRequests, DeleteUser(u) PROVE accountReq' \in [AccountRequests -> AccountRequest]
  BY <1>10, <1>a DEF DeleteUser
<1>11. ASSUME NEW u \in AccountRequests, NEW e \in Emails \cup {None},
              NEW p \in Phones \cup {None}, NEW n \in Names, UpdateUser(u, e, p, n)
       PROVE  accountReq' \in [AccountRequests -> AccountRequest]
  BY <1>11, <1>a DEF UpdateUser
<1>12. CASE UNCHANGED accountVars
  BY <1>12, <1>a DEF accountVars
<1> QED
  BY <1>1, <1>2, <1>3, <1>4, <1>5, <1>6, <1>7, <1>8, <1>9, <1>10, <1>11, <1>12, StepCases

(* Who writes what: the history of checks and of moves, and the bounds. *)
LEMMA Writers ==
  ASSUME [AccountNext]_accountVars
  PROVE  /\ UNCHANGED seen \/ \E r \in AccountRequests : CheckContact(r)
         /\ UNCHANGED moved \/ \E u \in AccountRequests : moved' = moved \cup {u}
         /\ \/ UNCHANGED saving
            \/ saving' = {}
            \/ \E u \in AccountRequests : saving' = saving \ {u}
            \/ \E u \in Existing : saving' = saving \cup {u}
         /\ UNCHANGED accountEdits \/ (accountEdits < MaxAccountEdits /\ accountEdits' = accountEdits + 1)
         /\ UNCHANGED accountCrashes \/ (accountCrashes < MaxAccountCrashes /\ accountCrashes' = accountCrashes + 1)
<1>1. ASSUME NEW r \in AccountRequests, CheckContact(r)
      PROVE  UNCHANGED <<saving, moved, accountEdits, accountCrashes>>
  BY <1>1 DEF CheckContact, bounds
<1>2. ASSUME NEW r \in AccountRequests, SaveAccount(r) \/ SaveCode(r)
      PROVE  UNCHANGED <<saving, seen, moved, accountEdits, accountCrashes>>
  BY <1>2 DEF SaveAccount, SaveCode, bounds, history
<1>3. ASSUME NEW r \in AccountRequests, ReadVerify(r)
      PROVE  /\ UNCHANGED <<seen, moved, accountEdits, accountCrashes>>
             /\ UNCHANGED saving \/ \E u \in Existing : saving' = saving \cup {u}
  BY <1>3 DEF ReadVerify, bounds, history
<1>4. ASSUME NEW u \in AccountRequests, SaveVerified(u)
      PROVE  /\ UNCHANGED <<seen, moved, accountEdits, accountCrashes>>
             /\ saving' = {} \/ saving' = saving \ {u}
  BY <1>4 DEF SaveVerified, bounds, history
<1>5. ASSUME NEW u \in AccountRequests, DeleteUser(u)
      PROVE  /\ UNCHANGED <<saving, seen, moved, accountCrashes>>
             /\ accountEdits < MaxAccountEdits /\ accountEdits' = accountEdits + 1
  BY <1>5 DEF DeleteUser, history
<1>6. ASSUME NEW r \in AccountRequests, NEW c \in Codes, CheckName(r, c) \/ ReadResend(r, c)
      PROVE  UNCHANGED <<saving, seen, moved, accountEdits, accountCrashes>>
  BY <1>6 DEF CheckName, ReadResend, bounds, history
<1>7. ASSUME NEW r, NEW e, NEW p, NEW n, NEW role, NEW g,
             CallRegister(r, e, p, n, role, g)
      PROVE  UNCHANGED <<saving, seen, moved, accountEdits, accountCrashes>>
  BY <1>7 DEF CallRegister, bounds, history
<1>8. ASSUME NEW r, NEW e, NEW c, CallVerify(r, e, c) \/ CallResend(r, c)
      PROVE  UNCHANGED <<saving, seen, moved, accountEdits, accountCrashes>>
  BY <1>8 DEF CallVerify, CallResend, bounds, history
<1>9. ASSUME NEW u \in AccountRequests, NEW e, NEW p, NEW n, UpdateUser(u, e, p, n)
      PROVE  /\ UNCHANGED <<saving, seen, accountCrashes>>
             /\ UNCHANGED moved \/ moved' = moved \cup {u}
             /\ accountEdits < MaxAccountEdits /\ accountEdits' = accountEdits + 1
  BY <1>9 DEF UpdateUser
<1>10. ASSUME AccountCrash
       PROVE  /\ UNCHANGED <<seen, moved, accountEdits>> /\ saving' = {}
              /\ accountCrashes < MaxAccountCrashes /\ accountCrashes' = accountCrashes + 1
  BY <1>10 DEF AccountCrash, history
<1>11. ASSUME UNCHANGED accountVars
       PROVE  UNCHANGED <<saving, seen, moved, accountEdits, accountCrashes>>
  BY <1>11 DEF accountVars
<1> QED
  BY <1>1, <1>2, <1>3, <1>4, <1>5, <1>6, <1>7, <1>8, <1>9, <1>10, <1>11, StepCases

LEMMA StepType == AccountsInv /\ [AccountNext]_accountVars => AccountTypeOK'
<1> SUFFICES ASSUME AccountsInv, [AccountNext]_accountVars PROVE AccountTypeOK'
  OBVIOUS
<1>1. users' \in [AccountRequests -> User \cup {None}] /\ accountReq' \in [AccountRequests -> AccountRequest]
  BY StepUsers, StepReq
<1>2. saving' \subseteq AccountRequests /\ moved' \subseteq AccountRequests
  BY Writers DEF AccountsInv, AccountTypeOK, Existing
<1>3. accountEdits' \in 0..MaxAccountEdits /\ accountCrashes' \in 0..MaxAccountCrashes
  BY Writers, AccountConstants DEF AccountsInv, AccountTypeOK
<1>4. seen' \in [AccountRequests -> SUBSET AccountRequests]
  <2>1. ASSUME NEW r \in AccountRequests, CheckContact(r)
        PROVE  seen' \in [AccountRequests -> SUBSET AccountRequests]
    BY <2>1 DEF CheckContact, AccountsInv, AccountTypeOK, Existing
  <2> QED
    BY <2>1, Writers DEF AccountsInv, AccountTypeOK
<1> QED
  BY <1>1, <1>2, <1>3, <1>4 DEF AccountTypeOK

(* Where a step takes the request r. *)
Moves(r) ==
  \/ accountReq'[r] = accountReq[r]
  \/ accountReq'[r] = AccountDone
  \/ /\ accountReq[r].pc = "new" /\ accountReq'[r].pc = "checkContact"
     /\ accountReq'[r].name \in Names /\ (accountReq'[r].email # None \/ accountReq'[r].phone # None)
  \/ accountReq[r].pc = "new" /\ accountReq'[r].pc \in {"readVerify", "readResend"}
  \/ /\ CheckContact(r) /\ Contact(accountReq[r]) \notin Taken
     /\ accountReq'[r] = [accountReq[r] EXCEPT !.pc = "checkName"]
  \/ /\ accountReq[r].pc = "checkName"
     /\ \E c \in Codes : accountReq'[r] = [accountReq[r] EXCEPT !.pc = "insert", !.code = c]
  \/ /\ accountReq[r].pc = "readResend" /\ accountReq'[r].pc = "saveCode"
     /\ accountReq'[r].user \in AccountRequests /\ accountReq'[r].code \in Codes

LEMMA Progress ==
  ASSUME AccountsInv, [AccountNext]_accountVars, NEW r \in AccountRequests
  PROVE  Moves(r)
<1>a. accountReq \in [AccountRequests -> AccountRequest]
  BY DEF AccountsInv, AccountTypeOK
<1>b. ASSUME NEW q \in AccountRequests, End(q) PROVE Moves(r)
  BY <1>a, <1>b DEF End, Moves
<1>c. ASSUME UNCHANGED accountReq PROVE Moves(r)
  BY <1>c DEF Moves
<1>1. ASSUME NEW q \in AccountRequests, NEW e \in Emails \cup {None},
             NEW p \in Phones \cup {None}, NEW n \in Names, NEW role \in Roles,
             NEW g \in BOOLEAN, CallRegister(q, e, p, n, role, g)
      PROVE  Moves(r)
  BY <1>1, <1>a DEF CallRegister, NoAccountRequest, Moves
<1>2. ASSUME NEW q \in AccountRequests, NEW e \in Emails, NEW c \in Codes, CallVerify(q, e, c)
      PROVE  Moves(r)
  BY <1>2, <1>a DEF CallVerify, NoAccountRequest, Moves
<1>3. ASSUME NEW q \in AccountRequests, NEW k \in Emails \cup Phones \cup Names,
             CallResend(q, k)
      PROVE  Moves(r)
  BY <1>3, <1>a DEF CallResend, NoAccountRequest, Moves
<1>4. ASSUME NEW q \in AccountRequests, CheckContact(q) PROVE Moves(r)
  <2>1. CASE Contact(accountReq[q]) \in Taken
    BY <1>4, <2>1, <1>b DEF CheckContact
  <2>2. CASE Contact(accountReq[q]) \notin Taken
    BY <1>4, <2>2, <1>a DEF CheckContact, Moves
  <2> QED
    BY <2>1, <2>2
<1>5. ASSUME NEW q \in AccountRequests, NEW c \in Codes, CheckName(q, c) PROVE Moves(r)
  <2>1. CASE End(q)
    BY <1>b, <2>1
  <2>2. CASE ~End(q)
    <3>1. accountReq' = [accountReq EXCEPT ![q].pc = "insert", ![q].code = c]
      BY <1>5, <2>2 DEF CheckName
    <3>2. accountReq' = [accountReq EXCEPT ![q] = [accountReq[q] EXCEPT !.pc = "insert", !.code = c]]
      BY <3>1, <1>a
    <3>3. CASE r = q
      BY <1>5, <3>2, <3>3, <1>a DEF CheckName, Moves
    <3>4. CASE r # q
      BY <3>1, <3>4, <1>a DEF Moves
    <3> QED
      BY <3>3, <3>4
  <2> QED
    BY <2>1, <2>2
<1>6. ASSUME NEW q \in AccountRequests, NEW c \in Codes, ReadResend(q, c) PROVE Moves(r)
  <2>1. CASE End(q)
    BY <1>b, <2>1
  <2>2. CASE ~End(q)
    <3>1. PICK u \in Existing :
            accountReq' = [accountReq EXCEPT ![q].pc = "saveCode", ![q].user = u, ![q].code = c]
      BY <1>6, <2>2 DEF ReadResend
    <3>2. CASE r # q
      BY <3>1, <3>2, <1>a DEF Moves
    <3>3. CASE r = q
      <4>1. accountReq'[r] = [accountReq[r] EXCEPT !.pc = "saveCode", !.user = u, !.code = c]
        BY <3>1, <3>3, <1>a
      <4>2. accountReq'[r].pc = "saveCode" /\ accountReq'[r].user = u /\ accountReq'[r].code = c
        BY <4>1, <1>a DEF AccountRequest
      <4>3. accountReq[r].pc = "readResend" /\ u \in AccountRequests
        BY <1>6, <3>3 DEF ReadResend, Existing
      <4> QED
        BY <4>2, <4>3 DEF Moves
    <3> QED
      BY <3>2, <3>3
  <2> QED
    BY <2>1, <2>2
<1>7. ASSUME NEW q \in AccountRequests, SaveVerified(q) PROVE Moves(r)
  BY <1>7, <1>a DEF SaveVerified, Moves
<1>8. CASE AccountCrash
  BY <1>8, <1>a DEF AccountCrash, Moves
<1>9. ASSUME NEW q \in AccountRequests, SaveAccount(q) \/ ReadVerify(q) \/ SaveCode(q) PROVE Moves(r)
  <2>1. End(q)
    BY <1>9 DEF SaveAccount, ReadVerify, SaveCode
  <2> QED
    BY <1>b, <2>1
<1>10. ASSUME NEW u \in AccountRequests, DeleteUser(u) PROVE Moves(r)
  BY <1>10, <1>c DEF DeleteUser
<1>11. ASSUME NEW u \in AccountRequests, NEW e \in Emails \cup {None},
              NEW p \in Phones \cup {None}, NEW n \in Names, UpdateUser(u, e, p, n)
       PROVE  Moves(r)
  BY <1>11, <1>c DEF UpdateUser
<1>12. CASE UNCHANGED accountVars
  BY <1>12, <1>c DEF accountVars
<1> QED
  BY <1>1, <1>2, <1>3, <1>4, <1>5, <1>6, <1>7, <1>8, <1>9, <1>10, <1>11, <1>12, StepCases

(* How a step writes accounts: not at all, or one of them. *)
Inserts(u) == SaveAccount(u) /\ NameFree(u, accountReq[u].name)
                /\ users' = [users EXCEPT ![u] = Account(accountReq[u])]
Removes(u) == users' = [users EXCEPT ![u] = None]
Saves(u, d) ==
  /\ u \in Existing /\ users' = [users EXCEPT ![u] = d]
  /\ d.name = users[u].name /\ d.email = users[u].email /\ d.phone = users[u].phone
  /\ users[u].verified => d.verified
Edits(u, d) ==
  /\ u \in Existing /\ users' = [users EXCEPT ![u] = d]
  /\ NameFree(u, d.name) /\ d.verified = users[u].verified
  /\ u \in moved' \/ (d.email = users[u].email /\ d.phone = users[u].phone)

LEMMA UserWriters ==
  ASSUME AccountsInv, [AccountNext]_accountVars
  PROVE  \/ UNCHANGED users
         \/ \E u \in AccountRequests : Inserts(u) \/ Removes(u)
         \/ \E u \in AccountRequests, d \in User : Saves(u, d) \/ Edits(u, d)
<1> DEFINE Goal == \/ UNCHANGED users
                   \/ \E u \in AccountRequests : Inserts(u) \/ Removes(u)
                   \/ \E u \in AccountRequests, d \in User : Saves(u, d) \/ Edits(u, d)
<1>a. users \in [AccountRequests -> User \cup {None}]
  BY DEF AccountsInv, AccountTypeOK
<1>1. ASSUME NEW r \in AccountRequests, SaveAccount(r) PROVE Goal
  BY <1>1 DEF SaveAccount, Inserts
<1>2. ASSUME NEW u \in AccountRequests, SaveVerified(u) PROVE Goal
  <2>1. CASE u \in Existing
    <3>1. users[u] \in User
      BY <2>1, <1>a DEF Existing
    <3>2. Verified(u) \in User /\ Verified(u).verified = TRUE
            /\ Verified(u).name = users[u].name /\ Verified(u).email = users[u].email
            /\ Verified(u).phone = users[u].phone
      BY <3>1 DEF Verified, User
    <3>3. Saves(u, Verified(u))
      BY <1>2, <2>1, <3>2 DEF SaveVerified, Saves
    <3> QED
      BY <3>2, <3>3
  <2>2. CASE u \notin Existing
    BY <1>2, <2>2 DEF SaveVerified
  <2> QED
    BY <2>1, <2>2
<1>3. ASSUME NEW r \in AccountRequests, SaveCode(r) PROVE Goal
  <2> DEFINE u == accountReq[r].user
  <2>0. u \in AccountRequests /\ accountReq[r].code \in Codes
    BY <1>3 DEF SaveCode, AccountsInv, Carries
  <2>1. CASE u \in Existing
    <3>1. users[u] \in User
      BY <2>1, <1>a DEF Existing
    <3>2. WithCode(r) \in User /\ WithCode(r).verified = users[u].verified
            /\ WithCode(r).name = users[u].name /\ WithCode(r).email = users[u].email
            /\ WithCode(r).phone = users[u].phone
      BY <2>0, <3>1 DEF WithCode, User
    <3>3. Saves(u, WithCode(r))
      BY <1>3, <2>1, <3>2 DEF SaveCode, Saves
    <3> QED
      BY <2>0, <3>2, <3>3
  <2>2. CASE u \notin Existing
    BY <1>3, <2>2 DEF SaveCode
  <2> QED
    BY <2>1, <2>2
<1>4. ASSUME NEW u \in AccountRequests, NEW e \in Emails \cup {None},
             NEW p \in Phones \cup {None}, NEW n \in Names, UpdateUser(u, e, p, n)
      PROVE  Goal
  <2> DEFINE d == [users[u] EXCEPT !.email = e, !.phone = p, !.name = n]
  <2>1. users[u] \in User /\ u \in Existing
    BY <1>4, <1>a DEF UpdateUser, Existing
  <2>2. d \in User /\ d.email = e /\ d.phone = p /\ d.name = n
          /\ d.verified = users[u].verified
    BY <2>1 DEF User
  <2>3. users' = [users EXCEPT ![u] = d]
    BY <1>4, <1>a DEF UpdateUser
  <2>4. u \in moved' \/ (e = users[u].email /\ p = users[u].phone)
    BY <1>4 DEF UpdateUser
  <2>5. NameFree(u, n)
    BY <1>4 DEF UpdateUser
  <2>6. Edits(u, d)
    <3> HIDE DEF d
    <3> QED BY <2>1, <2>2, <2>3, <2>4, <2>5 DEF Edits
  <2> QED
    BY <2>2, <2>6
<1>5. ASSUME NEW u \in AccountRequests, DeleteUser(u) PROVE Goal
  BY <1>5 DEF DeleteUser, Removes
<1>6. ASSUME NEW r \in AccountRequests, CheckContact(r) \/ ReadVerify(r) PROVE Goal
  BY <1>6 DEF CheckContact, ReadVerify
<1>7. ASSUME NEW r \in AccountRequests, NEW c \in Codes, CheckName(r, c) \/ ReadResend(r, c)
      PROVE  Goal
  BY <1>7 DEF CheckName, ReadResend
<1>8. ASSUME NEW r, NEW e, NEW p, NEW n, NEW role, NEW g,
             CallRegister(r, e, p, n, role, g)
      PROVE  Goal
  BY <1>8 DEF CallRegister
<1>9. ASSUME NEW r, NEW e, NEW c, CallVerify(r, e, c) \/ CallResend(r, c) PROVE Goal
  BY <1>9 DEF CallVerify, CallResend
<1>10. ASSUME AccountCrash \/ UNCHANGED accountVars PROVE Goal
  BY <1>10 DEF AccountCrash, accountVars
<1>11. Goal
  <2> HIDE DEF Goal
  <2> QED
    BY <1>1, <1>2, <1>3, <1>4, <1>5, <1>6, <1>7, <1>8, <1>9, <1>10, StepCases
<1> QED
  BY <1>11

LEMMA StepCarries ==
  ASSUME AccountsInv, [AccountNext]_accountVars, NEW r \in AccountRequests
  PROVE  Carries(r)'
<1>1. accountReq[r] \in AccountRequest /\ Carries(r)
  BY DEF AccountsInv, AccountTypeOK
<1>2. Moves(r)
  BY Progress
<1> QED
  BY <1>1, <1>2 DEF Carries, Moves, AccountDone, NoAccountRequest, CheckContact, AccountRequest

(* No one sees an account before it is made, and a request makes it last. *)
LEMMA StepUnborn ==
  ASSUME AccountsInv, [AccountNext]_accountVars, NEW r \in AccountRequests
  PROVE  Unborn(r)'
<1> SUFFICES ASSUME accountReq'[r].pc # "done"
             PROVE  users'[r] = None /\ \A v \in AccountRequests : r \notin seen'[v]
  BY DEF Unborn
<1>a. users \in [AccountRequests -> User \cup {None}] /\ accountReq \in [AccountRequests -> AccountRequest]
        /\ seen \in [AccountRequests -> SUBSET AccountRequests]
  BY DEF AccountsInv, AccountTypeOK
<1>1. accountReq[r].pc # "done"
  BY Progress, <1>a DEF Moves, AccountDone, NoAccountRequest, CheckContact
<1>2. users[r] = None /\ \A v \in AccountRequests : r \notin seen[v]
  BY <1>1 DEF AccountsInv, Unborn
<1>3. r \notin Existing
  BY <1>2 DEF Existing
<1>4. users'[r] = None
  <2>1. ~Inserts(r)
    BY <1>a, DoneIsRequest DEF Inserts, SaveAccount, End
  <2> QED
    BY <1>a, <1>2, <1>3, <2>1, UserWriters DEF Inserts, Removes, Saves, Edits
<1>5. \A v \in AccountRequests : r \notin seen'[v]
  BY <1>a, <1>2, <1>3, Writers DEF CheckContact
<1> QED
  BY <1>4, <1>5

(* Accounts keep their contact unless they are moved. *)
LEMMA ContactKept ==
  ASSUME AccountsInv, [AccountNext]_accountVars, NEW v \in Existing, v \in Existing', v \notin moved'
  PROVE  users'[v].email = users[v].email /\ users'[v].phone = users[v].phone
<1>a. users \in [AccountRequests -> User \cup {None}] /\ v \in AccountRequests /\ users[v] # None
        /\ users'[v] # None
  BY DEF AccountsInv, AccountTypeOK, Existing
<1>1. ~Inserts(v)
  BY <1>a DEF Inserts, SaveAccount, AccountsInv, Unborn
<1> QED
  BY <1>a, <1>1, UserWriters DEF Inserts, Removes, Saves, Edits

LEMMA StepChecked ==
  ASSUME AccountsInv, [AccountNext]_accountVars, NEW r \in AccountRequests
  PROVE  Checked(r)'
<1> SUFFICES ASSUME accountReq'[r].pc \in {"checkName", "insert"},
                    NEW v \in (seen'[r] \cap Existing') \ moved'
             PROVE  ~Clash(r, v)'
  BY DEF Checked
<1>a. users \in [AccountRequests -> User \cup {None}] /\ accountReq \in [AccountRequests -> AccountRequest]
        /\ seen \in [AccountRequests -> SUBSET AccountRequests] /\ moved \subseteq moved'
        /\ v \in AccountRequests
  BY Writers DEF AccountsInv, AccountTypeOK, Existing
<1>1. CASE CheckContact(r) /\ Contact(accountReq[r]) \notin Taken
             /\ accountReq'[r] = [accountReq[r] EXCEPT !.pc = "checkName"]
  <2>1. users' = users /\ seen'[r] = Existing /\ accountReq[r].pc = "checkContact"
    BY <1>1, <1>a DEF CheckContact
  <2>2. accountReq'[r].email = accountReq[r].email /\ accountReq'[r].phone = accountReq[r].phone
    BY <1>1, <1>a DEF AccountRequest
  <2>3. accountReq[r].email # None \/ accountReq[r].phone # None
    BY <2>1 DEF AccountsInv, Carries
  <2>4. v \in Existing
    BY <2>1
  <2> QED
    BY <1>1, <2>1, <2>2, <2>3, <2>4 DEF Clash, Contact, Taken
<1>2. CASE /\ accountReq'[r].email = accountReq[r].email /\ accountReq'[r].phone = accountReq[r].phone
           /\ accountReq[r].pc \in {"checkName", "insert"}
  <2>1. seen'[r] = seen[r]
    <3>1. ~CheckContact(r)
      BY <1>2 DEF CheckContact
    <3> QED
      BY <1>a, <3>1, Writers DEF CheckContact
  <2>2. v \in seen[r] /\ v \notin moved
    BY <2>1, <1>a
  <2>3. v \in Existing
    <3> SUFFICES ASSUME users[v] = None PROVE FALSE
      BY <1>a DEF Existing
    <3>1. users'[v] # None /\ v \notin Existing
      BY DEF Existing
    <3>2. Inserts(v)
      BY <1>a, <3>1, UserWriters DEF Inserts, Removes, Saves, Edits
    <3> QED
      BY <1>a, <2>2, <3>2 DEF Inserts, SaveAccount, AccountsInv, Unborn
  <2>4. ~Clash(r, v)
    BY <1>2, <2>2, <2>3 DEF AccountsInv, Checked
  <2>5. users'[v].email = users[v].email /\ users'[v].phone = users[v].phone
    BY <2>3, ContactKept
  <2> QED
    BY <1>2, <2>4, <2>5 DEF Clash
<1> QED
  <2>1. CASE accountReq'[r] = accountReq[r]
    BY <1>2, <2>1
  <2>2. CASE accountReq[r].pc = "checkName"
               /\ \E c \in Codes : accountReq'[r] = [accountReq[r] EXCEPT !.pc = "insert", !.code = c]
    BY <1>2, <2>2, <1>a DEF AccountRequest
  <2>3. accountReq'[r].pc = "checkName" \/ accountReq'[r].pc = "insert"
    OBVIOUS
  <2>4. ~(accountReq'[r] = AccountDone)
    BY <2>3, DoneIsRequest
  <2> QED
    BY <1>1, <2>1, <2>2, <2>3, <2>4, Progress DEF Moves

LEMMA StepNames == AccountsInv /\ [AccountNext]_accountVars => NamesUnique'
<1> SUFFICES ASSUME AccountsInv, [AccountNext]_accountVars,
                    NEW u \in Existing', NEW v \in Existing',
                    users'[u].name = users'[v].name
             PROVE  u = v
  BY DEF NamesUnique
<1>a. users \in [AccountRequests -> User \cup {None}] /\ u \in AccountRequests /\ v \in AccountRequests
        /\ users'[u] # None /\ users'[v] # None
        /\ accountReq \in [AccountRequests -> AccountRequest]
  BY DEF AccountsInv, AccountTypeOK, Existing
<1>b. \A x, y \in Existing : users[x].name = users[y].name => x = y
  BY DEF AccountsInv, NamesUnique
<1>1. CASE UNCHANGED users
  BY <1>1, <1>a, <1>b DEF Existing
<1>2. ASSUME NEW x \in AccountRequests, NEW n, NameFree(x, n), users'[x].name = n,
             \A y \in AccountRequests : y # x => users'[y] = users[y]
      PROVE  u = v
  BY <1>2, <1>a, <1>b DEF NameFree, Existing
<1>3. ASSUME NEW x \in AccountRequests, Inserts(x) PROVE u = v
  <2>1. users'[x].name = accountReq[x].name
    BY <1>3, <1>a DEF Inserts, Account
  <2> QED
    BY <1>2, <1>3, <1>a, <2>1 DEF Inserts
<1>4. ASSUME NEW x \in AccountRequests, Removes(x) PROVE u = v
  BY <1>4, <1>a, <1>b DEF Removes, Existing
<1>5. ASSUME NEW x \in AccountRequests, NEW d \in User, Saves(x, d) PROVE u = v
  BY <1>5, <1>a, <1>b DEF Saves, Existing
<1>6. ASSUME NEW x \in AccountRequests, NEW d \in User, Edits(x, d) PROVE u = v
  BY <1>6, <1>2, <1>a DEF Edits
<1> QED
  BY <1>1, <1>3, <1>4, <1>5, <1>6, UserWriters

LEMMA StepContact == AccountsInv /\ [AccountNext]_accountVars => ContactSharedByRaceOnly'
<1> SUFFICES ASSUME AccountsInv, [AccountNext]_accountVars,
                    NEW u \in Existing' \ moved', NEW v \in Existing' \ moved',
                    u # v, SameContact(u, v)'
             PROVE  u \notin seen'[v] /\ v \notin seen'[u]
  BY DEF ContactSharedByRaceOnly
<1>a. users \in [AccountRequests -> User \cup {None}] /\ u \in AccountRequests /\ v \in AccountRequests
        /\ accountReq \in [AccountRequests -> AccountRequest] /\ seen \in [AccountRequests -> SUBSET AccountRequests]
        /\ moved \subseteq moved'
  BY Writers DEF AccountsInv, AccountTypeOK, Existing
<1>1. ASSUME NEW x \in Existing', x \notin Existing
      PROVE  Inserts(x) /\ users' = [users EXCEPT ![x] = Account(accountReq[x])]
  <2>1. x \in AccountRequests /\ users[x] = None /\ users'[x] # None
    BY <1>1 DEF Existing
  <2> QED
    BY <1>a, <1>1, <2>1, UserWriters DEF Inserts, Removes, Saves, Edits
(* What an existing account saw, it still has seen. *)
<1>2. ASSUME NEW x \in Existing PROVE seen'[x] = seen[x]
  <2>1. ~CheckContact(x)
    BY <1>2 DEF CheckContact, AccountsInv, Unborn, Existing
  <2> QED
    BY <1>2, <1>a, <2>1, Writers DEF CheckContact, Existing
<1>3. ASSUME NEW x \in Existing' \ moved', NEW y \in Existing' \ moved',
             x # y, SameContact(x, y)', x \notin Existing
      PROVE  x \notin seen'[y] /\ y \notin seen'[x]
  <2>1. Inserts(x) /\ x \in AccountRequests /\ y \in AccountRequests /\ UNCHANGED seen
    BY <1>1, <1>3 DEF Inserts, SaveAccount, history, Existing
  <2>2. accountReq[x].pc = "insert"
    BY <2>1 DEF Inserts, SaveAccount
  <2>3. x \notin seen'[y]
    BY <2>1, <2>2 DEF AccountsInv, Unborn
  <2>4. y \in Existing /\ users'[y] = users[y]
    BY <1>3, <1>a, <2>1 DEF Inserts, Existing
  <2>5. users'[x].email = accountReq[x].email /\ users'[x].phone = accountReq[x].phone
    BY <1>a, <2>1 DEF Inserts, Account
  <2>6. Clash(x, y)
    BY <1>3, <2>4, <2>5 DEF SameContact, Clash
  <2>7. y \notin seen[x]
    BY <1>3, <1>a, <2>1, <2>2, <2>4, <2>6 DEF AccountsInv, Checked
  <2> QED
    BY <2>1, <2>3, <2>7
<1>4. CASE u \in Existing /\ v \in Existing
  <2>1. users'[u].email = users[u].email /\ users'[u].phone = users[u].phone
    BY <1>4, ContactKept
  <2>2. users'[v].email = users[v].email /\ users'[v].phone = users[v].phone
    BY <1>4, ContactKept
  <2>3. SameContact(u, v)
    BY <2>1, <2>2 DEF SameContact
  <2>4. u \notin seen[v] /\ v \notin seen[u]
    BY <1>4, <1>a, <2>3 DEF AccountsInv, ContactSharedByRaceOnly
  <2> QED
    BY <1>2, <1>4, <2>4
<1>5. CASE u \notin Existing
  BY <1>3, <1>5
<1>6. CASE v \notin Existing
  <2>1. SameContact(v, u)'
    BY DEF SameContact
  <2> QED
    BY <1>3, <1>6, <2>1
<1> QED
  BY <1>4, <1>5, <1>6

LEMMA StepInv == AccountsInv /\ [AccountNext]_accountVars => AccountsInv'
BY StepType, StepCarries, StepUnborn, StepChecked, StepNames, StepContact DEF AccountsInv

(* Every account, request and history keeps its shape, for any number of    *)
(* requests, edits and crashes (register, verify, resend, updateUser,       *)
(* deleteUser).                                                             *)
THEOREM AccountsTypeCorrect == AccountSpec => []AccountTypeOK
<1>1. AccountsInv => AccountTypeOK
  BY DEF AccountsInv
<1> QED
  BY InitInv, StepInv, <1>1, PTL DEF AccountSpec

(* No two accounts have one name, however register's check of the name and  *)
(* its save, and updateUser, interleave.                                    *)
THEOREM NamesStayUnique == AccountSpec => []NamesUnique
<1>1. AccountsInv => NamesUnique
  BY DEF AccountsInv
<1> QED
  BY InitInv, StepInv, <1>1, PTL DEF AccountSpec

(* Accounts share the contact they registered with only if their            *)
(* registrations overlapped: register's check misses no account that was    *)
(* there.                                                                   *)
THEOREM ContactsSharedByRaceOnly == AccountSpec => []ContactSharedByRaceOnly
<1>1. AccountsInv => ContactSharedByRaceOnly
  BY DEF AccountsInv
<1> QED
  BY InitInv, StepInv, <1>1, PTL DEF AccountSpec

(* No step takes back a verification, resend's late save included. *)
LEMMA StepVerified ==
  ASSUME AccountsInv, [AccountNext]_accountVars, NEW u \in Existing, users[u].verified, users'[u] # None
  PROVE  users'[u].verified
<1>a. users \in [AccountRequests -> User \cup {None}] /\ u \in AccountRequests /\ users[u] # None
  BY DEF AccountsInv, AccountTypeOK, Existing
<1>1. ~Inserts(u)
  BY <1>a DEF Inserts, SaveAccount, AccountsInv, Unborn
<1> QED
  BY <1>a, <1>1, UserWriters DEF Inserts, Removes, Saves, Edits

(* Once verified, an account stays verified until it is deleted. *)
THEOREM VerifiedStays == AccountSpec => VerifiedForGood
<1> DEFINE Stays == \A u \in Existing :
                      users[u].verified /\ users'[u] # None => users'[u].verified
<1>1. AccountsInv /\ [AccountNext]_accountVars => [Stays]_accountVars
  BY StepVerified
<1> QED
  BY InitInv, StepInv, <1>1, PTL DEF AccountSpec, VerifiedForGood
=============================================================================
