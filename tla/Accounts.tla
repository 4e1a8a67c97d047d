------------------------------ MODULE Accounts ------------------------------
(***************************************************************************)
(* Accounts: register, verify and resend_verification_code of              *)
(* services/authService.js, updateUser and deleteUser of                   *)
(* services/userService.js.                                                *)
(*                                                                         *)
(* A request is made once and makes at most one account, so the account    *)
(* has the name of its request.  Each awaited call is an action.  The      *)
(* database knows one rule, the unique index on username; everything else  *)
(* is checked by reading first and writing later.  verify does not await   *)
(* its save: the write arrives some time after the reply.                  *)
(* A request that ends in an error has the effects of its steps so far.    *)
(***************************************************************************)
EXTENDS Integers, FiniteSets, Database

CONSTANTS
  AccountRequests, Emails, Phones, Names,
  Codes,              \* verification codes: 1000..9999 in the code
  MaxAccountEdits,    \* bound: profile updates and deletions of accounts
  MaxAccountCrashes    \* bound: how often the server process dies

(* joi lets four roles register; models/User.js does not know "coursier".  *)
(* "user" stands for the three it knows.                                    *)
ModelRoles == {"user"}
Roles == ModelRoles \cup {"coursier"}

User == [email : Emails \cup {None}, phone : Phones \cup {None}, name : Names,
         code : Codes, verified : BOOLEAN]
AccountRequest == [pc : {"new", "checkContact", "checkName", "insert", "readVerify",
                         "readResend", "saveCode", "done"},
                   email : Emails \cup {None}, phone : Phones \cup {None},
                   name : Names \cup {None}, role : Roles \cup {None},
                   google : BOOLEAN, code : Codes \cup {None},
                   user : AccountRequests \cup {None}]

ASSUME AccountConstants ==
  /\ None \notin Emails \cup Phones \cup Names \cup Codes \cup AccountRequests
  /\ None \notin User
  /\ MaxAccountEdits \in Nat /\ MaxAccountCrashes \in Nat

VARIABLES
  users,      \* [AccountRequests -> account or None]
  accountReq, \* [AccountRequests -> the locals of a request]
  saving,     \* the accounts that a save of verify is on its way to
  accountEdits, accountCrashes,
  seen,       \* history: the accounts there when a registration checked its contact
  moved       \* history: the accounts whose contact was updated

accountVars == <<users, accountReq, saving, accountEdits, accountCrashes, seen, moved>>
history == <<seen, moved>>
bounds == <<accountEdits, accountCrashes>>

NoAccountRequest == [pc |-> "new", email |-> None, phone |-> None, name |-> None,
                     role |-> None, google |-> FALSE, code |-> None, user |-> None]
Existing == {u \in AccountRequests : users[u] # None}
Taken == {users[u].email : u \in Existing} \cup {users[u].phone : u \in Existing}
NamesTaken == {users[u].name : u \in Existing}
AccountDone == [NoAccountRequest EXCEPT !.pc = "done"]
End(r) == accountReq' = [accountReq EXCEPT ![r] = AccountDone]

(* Slips a change to the code could make; no specification uses them. *)
PhoneFirst(q) == IF q.phone # None THEN q.phone ELSE q.email
WholeDocument(r) == [users[accountReq[r].user] EXCEPT !.code = accountReq[r].code,
                                                     !.verified = FALSE]
-----------------------------------------------------------------------------
(* The one contact that register looks up: the phone only without an email. *)
Contact(q) == IF q.email # None THEN q.email ELSE q.phone

(* The unique index on username, for account u that takes the name n. *)
NameFree(u, n) == \A v \in Existing : users[v].name = n => v = u

(* new User(...) of register; a Google account starts verified. *)
Account(q) == [email |-> q.email, phone |-> q.phone, name |-> q.name,
               code |-> q.code, verified |-> q.google]

(* The save of resend and that of verify send only the field they changed. *)
WithCode(r) == [users[accountReq[r].user] EXCEPT !.code = accountReq[r].code]
Verified(u) == [users[u] EXCEPT !.verified = TRUE]

AccountInit ==
  /\ users = [u \in AccountRequests |-> None]
  /\ accountReq = [r \in AccountRequests |-> NoAccountRequest]
  /\ saving = {} /\ accountEdits = 0 /\ accountCrashes = 0
  /\ seen = [r \in AccountRequests |-> {}] /\ moved = {}

(* A registration without email and phone, or whose password and its        *)
(* confirmation differ, fails without effect and is left out.               *)
CallRegister(r, e, p, n, role, g) ==
  /\ accountReq[r].pc = "new" /\ (e # None \/ p # None)
  /\ accountReq' = [accountReq EXCEPT ![r] =
       [NoAccountRequest EXCEPT !.pc = "checkContact", !.email = e, !.phone = p,
                         !.name = n, !.role = role, !.google = g]]
  /\ UNCHANGED <<users, saving, bounds, history>>

CheckContact(r) ==
  /\ accountReq[r].pc = "checkContact"
  /\ IF Contact(accountReq[r]) \in Taken THEN End(r)
     ELSE accountReq' = [accountReq EXCEPT ![r].pc = "checkName"]
  /\ seen' = [seen EXCEPT ![r] = Existing]
  /\ UNCHANGED <<users, saving, bounds, moved>>

(* The welcome mail leaves here, before the account is saved. *)
CheckName(r, c) ==
  /\ accountReq[r].pc = "checkName"
  /\ IF accountReq[r].name \in NamesTaken THEN End(r)
     ELSE accountReq' = [accountReq EXCEPT ![r].pc = "insert", ![r].code = c]
  /\ UNCHANGED <<users, saving, bounds, history>>

(* save refuses a role the model does not know and a name in the index.     *)
(* The guest's cart that register merges next is module Cart's.             *)
SaveAccount(r) ==
  /\ accountReq[r].pc = "insert"
  /\ users' = IF accountReq[r].role \in ModelRoles /\ NameFree(r, accountReq[r].name)
              THEN [users EXCEPT ![r] = Account(accountReq[r])] ELSE users
  /\ End(r)
  /\ UNCHANGED <<saving, bounds, history>>

CallVerify(r, e, c) ==
  /\ accountReq[r].pc = "new"
  /\ accountReq' = [accountReq EXCEPT ![r] =
       [NoAccountRequest EXCEPT !.pc = "readVerify", !.email = e, !.code = c]]
  /\ UNCHANGED <<users, saving, bounds, history>>

(* The account is looked up by email alone; the save is not awaited, and    *)
(* the reply and the mail say "verified" already.                           *)
ReadVerify(r) ==
  /\ accountReq[r].pc = "readVerify"
  /\ \/ \E u \in Existing :
          /\ users[u].email = accountReq[r].email /\ users[u].code = accountReq[r].code
          /\ saving' = saving \cup {u}
     \/ /\ \/ \E u \in Existing : /\ users[u].email = accountReq[r].email
                                  /\ users[u].code # accountReq[r].code
           \/ \A u \in Existing : users[u].email # accountReq[r].email
        /\ UNCHANGED saving
  /\ End(r)
  /\ UNCHANGED <<users, bounds, history>>

(* The account may be gone: the save is then rejected, nothing handles the  *)
(* rejection, and the process ends.                                         *)
SaveVerified(u) ==
  /\ u \in saving
  /\ IF u \in Existing
     THEN /\ users' = [users EXCEPT ![u] = Verified(u)]
          /\ saving' = saving \ {u}
          /\ UNCHANGED accountReq
     ELSE /\ saving' = {}
          /\ accountReq' = [r \in AccountRequests |->
               IF accountReq[r].pc = "new" THEN accountReq[r] ELSE AccountDone]
          /\ UNCHANGED users
  /\ UNCHANGED <<bounds, history>>

CallResend(r, k) ==
  /\ accountReq[r].pc = "new"
  /\ accountReq' = [accountReq EXCEPT ![r] =
       [NoAccountRequest EXCEPT !.pc = "readResend",
                                !.email = IF k \in Emails THEN k ELSE None,
                                !.phone = IF k \in Phones THEN k ELSE None,
                                !.name = IF k \in Names THEN k ELSE None]]
  /\ UNCHANGED <<users, saving, bounds, history>>

(* Three queries, by email, phone and name; only one of them can find a key *)
(* of its kind, so the others are left out.                                 *)
AnswersTo(u, q) ==
  /\ q.email # None => users[u].email = q.email
  /\ q.phone # None => users[u].phone = q.phone
  /\ q.name # None => users[u].name = q.name

ReadResend(r, c) ==
  /\ accountReq[r].pc = "readResend"
  /\ \/ \E u \in Existing :
          /\ AnswersTo(u, accountReq[r])
          /\ IF users[u].verified THEN End(r)
             ELSE accountReq' = [accountReq EXCEPT ![r].pc = "saveCode", ![r].user = u,
                                                   ![r].code = c]
     \/ /\ \A u \in Existing : ~AnswersTo(u, accountReq[r])
        /\ End(r)
  /\ UNCHANGED <<users, saving, bounds, history>>

(* The mail with the code follows the save; without the account, an error.  *)
SaveCode(r) ==
  /\ accountReq[r].pc = "saveCode"
  /\ users' = IF accountReq[r].user \in Existing
              THEN [users EXCEPT ![accountReq[r].user] = WithCode(r)] ELSE users
  /\ End(r)
  /\ UNCHANGED <<saving, bounds, history>>

(* updateUser: one findByIdAndUpdate, under the index but without a look at *)
(* other accounts' contacts.                                                *)
UpdateUser(u, e, p, n) ==
  /\ accountEdits < MaxAccountEdits /\ u \in Existing /\ NameFree(u, n)
  /\ e = None => users[u].email = None
  /\ p = None => users[u].phone = None
  /\ accountEdits' = accountEdits + 1
  /\ users' = [users EXCEPT ![u].email = e, ![u].phone = p, ![u].name = n]
  /\ moved' = IF <<e, p>> = <<users[u].email, users[u].phone>> THEN moved
              ELSE moved \cup {u}
  /\ UNCHANGED <<accountReq, saving, accountCrashes, seen>>

DeleteUser(u) ==
  /\ accountEdits < MaxAccountEdits /\ u \in Existing
  /\ accountEdits' = accountEdits + 1
  /\ users' = [users EXCEPT ![u] = None]
  /\ UNCHANGED <<accountReq, saving, accountCrashes, history>>

(* The server dies: its requests and the write of verify, if not sent yet. *)
AccountCrash ==
  /\ accountCrashes < MaxAccountCrashes
  /\ accountCrashes' = accountCrashes + 1
  /\ saving' = {}
  /\ accountReq' = [r \in AccountRequests |->
       IF accountReq[r].pc = "new" THEN accountReq[r] ELSE AccountDone]
  /\ UNCHANGED <<users, accountEdits, history>>

AccountStep(r) ==
  \/ CheckContact(r) \/ SaveAccount(r) \/ ReadVerify(r) \/ SaveCode(r)
  \/ \E c \in Codes : CheckName(r, c) \/ ReadResend(r, c)

AccountCall(r) ==
  \/ \E e \in Emails \cup {None}, p \in Phones \cup {None}, n \in Names,
        role \in Roles, g \in BOOLEAN : CallRegister(r, e, p, n, role, g)
  \/ \E e \in Emails, c \in Codes : CallVerify(r, e, c)
  \/ \E k \in Emails \cup Phones \cup Names : CallResend(r, k)

Edit(u) ==
  \/ \E e \in Emails \cup {None}, p \in Phones \cup {None}, n \in Names :
       UpdateUser(u, e, p, n)
  \/ DeleteUser(u)

AccountNext ==
  \/ \E r \in AccountRequests : AccountCall(r) \/ AccountStep(r) \/ SaveVerified(r) \/ Edit(r)
  \/ AccountCrash

AccountSpec == AccountInit /\ [][AccountNext]_accountVars

-----------------------------------------------------------------------------
(* Shape of the accounts and the requests. *)
AccountTypeOK ==
  /\ users \in [AccountRequests -> User \cup {None}]
  /\ accountReq \in [AccountRequests -> AccountRequest]
  /\ saving \subseteq AccountRequests
  /\ accountEdits \in 0..MaxAccountEdits /\ accountCrashes \in 0..MaxAccountCrashes
  /\ seen \in [AccountRequests -> SUBSET AccountRequests]
  /\ moved \subseteq AccountRequests

(* "Username already exists !": no two accounts have one name, although     *)
(* register checks it several awaits before it saves and updateUser never.  *)
NamesUnique ==
  \A u, v \in Existing : users[u].name = users[v].name => u = v

(* "Email already exists !" and "Phone number already exists !" hold as far *)
(* as register can see: accounts that still have the contact they           *)
(* registered with share it only if neither was there when the other was    *)
(* checked.  A phone counts for accounts without an email.                  *)
SameContact(u, v) ==
  \/ users[u].email # None /\ users[u].email = users[v].email
  \/ /\ users[u].email = None /\ users[v].email = None
     /\ users[u].phone = users[v].phone
ContactSharedByRaceOnly ==
  \A u, v \in Existing \ moved :
    u # v /\ SameContact(u, v) => u \notin seen[v] /\ v \notin seen[u]

(* An account once verified stays so, whatever code is resent meanwhile by  *)
(* a request that still saw it unverified.                                  *)
VerifiedForGood ==
  [][\A u \in Existing :
       users[u].verified /\ users'[u] # None => users'[u].verified]_accountVars
=============================================================================
