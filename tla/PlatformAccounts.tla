-------------------------- MODULE PlatformAccounts --------------------------
(****************************************************************************)
(* Accounts of the developer platform (web/platform/login_routes.rs and     *)
(* me_routes.rs, the platform_* models, main.rs): registration with an      *)
(* invite code, login, email verification, password change and reset.       *)
(*                                                                          *)
(* Several requests run at once and every database statement is a step, for *)
(* none of these handlers opens a transaction.  Any statement may fail.     *)
(* Accounts are never deleted and the email is unique, so an account is     *)
(* named by its email.  Row ids are positions in a table; a verification or *)
(* reset code is unguessable and is named by its row.                       *)
(****************************************************************************)
EXTENDS Integers, Sequences, FiniteSets

CONSTANTS
    Requests,     \* requests in flight at most
    Emails,
    Passwords,
    Secrets,      \* client secrets of a password reset
    NoUser, None,
    MaxRows,      \* bound: rows of the verification and of the reset table
    MaxOps        \* bound: requests made

PlatformAssumption ==
    /\ Requests # {} /\ Emails # {} /\ NoUser \notin Passwords
    /\ MaxRows \in Nat \ {0} /\ MaxOps \in Nat \ {0}

VARIABLES
    users,     \* platform_users: the password of an email, or NoUser
    verifs,    \* platform_email_verifications
    resets,    \* platform_password_reset_requests
    req,       \* the requests
    tokens,    \* emails that hold a token pair
    ops        \* requests made so far

vars == <<users, verifs, resets, req, tokens, ops>>

\* A request: what it was asked, how far it is, the row it has read, and (a
\* history) the passwords that were the account's while it ran.
Idle == [op |-> "none", pc |-> "idle", email |-> None, pw |-> None, new |-> None,
         row |-> 0, secret |-> None, held |-> {}]

Init ==
    /\ users = [e \in Emails |-> NoUser]
    /\ verifs = <<>> /\ resets = <<>>
    /\ req = [p \in Requests |-> Idle]
    /\ tokens = {} /\ ops = 0
-----------------------------------------------------------------------------
(* The tables *)

Exists(e) == users[e] # NoUser

\* The live verification rows of an account; which one first() returns is the
\* database's choice.
VerificationRows(e) == { i \in DOMAIN verifs : verifs[i].user = e /\ verifs[i].live }

\* NewPlatformEmailVerification::new(.., 24, false) and its insert.
InsertVerification(e) ==
    verifs' = Append(verifs, [user |-> e, live |-> TRUE, verified |-> FALSE, expired |-> FALSE])

\* Mutant: a completed request is found again.
SpentToo(e, i) == resets[i].user = e /\ ~resets[i].expired

\* get_by_user_id_and_code: the row of this account and code, unused and not
\* expired.
FindsReset(e, i) == resets[i].user = e /\ ~resets[i].used /\ ~resets[i].expired

\* writes, shared and cut are histories: passwords written with the code, whether
\* two confirmations of it overlapped, and whether one failed before the mark.
InsertReset(e, s) ==
    resets' = Append(resets, [user |-> e, secret |-> s, used |-> FALSE, expired |-> FALSE,
                              writes |-> 0, shared |-> FALSE, cut |-> FALSE])

\* A statement writes the password: the requests under way on that account saw
\* it current.
SetPassword(e, w, p, next) ==
    /\ users' = [users EXCEPT ![e] = w]
    /\ req' = [q \in DOMAIN req |->
                 IF q = p THEN next
                 ELSE IF req[q].email = e THEN [req[q] EXCEPT !.held = @ \union {w}] ELSE req[q]]

At(p, op, pc) == req[p].op = op /\ req[p].pc = pc
Step(p, pc) == req' = [req EXCEPT ![p].pc = pc]
Reply(p) == req' = [req EXCEPT ![p] = Idle]

Begin(p, r) ==
    /\ req[p] = Idle /\ ops < MaxOps
    /\ ops' = ops + 1
    /\ req' = [req EXCEPT ![p] = r]

\* A database error or a lost connection ends the request where it is.
Fail(p) ==
    /\ req[p] # Idle
    /\ Reply(p)
    /\ resets' = IF At(p, "confirm", "mark") THEN [resets EXCEPT ![req[p].row].cut = TRUE] ELSE resets
    /\ UNCHANGED <<users, verifs, tokens, ops>>
-----------------------------------------------------------------------------
(* Registration and login *)

\* new_for_platform_user: an access and a refresh token.
Issue(e) == tokens' = tokens \union {e}

\* validate_platform_jwt: a token of an account that exists.
Authorized(e) == e \in tokens /\ Exists(e)

\* register_platform_user up to the hash: the email is free and the invite code
\* is in platform_invite_codes (it is not consumed).
RegisterStart(p, e, w) ==
    /\ ~Exists(e)
    /\ Begin(p, [Idle EXCEPT !.op = "register", !.pc = "insert", !.email = e, !.new = w])
    /\ UNCHANGED <<users, verifs, resets, tokens>>

\* create_platform_user: the unique email refuses the second of two.
RegisterInsert(p) ==
    /\ At(p, "register", "insert")
    /\ IF Exists(req[p].email)
       THEN Reply(p) /\ UNCHANGED users
       ELSE SetPassword(req[p].email, req[p].new, p, [req[p] EXCEPT !.pc = "verification"])
    /\ UNCHANGED <<verifs, resets, tokens, ops>>

\* The verification row, its mail in the background, and the tokens.
RegisterVerification(p) ==
    /\ At(p, "register", "verification") /\ Len(verifs) < MaxRows
    /\ InsertVerification(req[p].email)
    /\ Issue(req[p].email)
    /\ Reply(p)
    /\ UNCHANGED <<users, resets, ops>>

\* authenticate_platform_user: the password is read, then compared outside the
\* database.
Matches(e, w) == users[e] = w

Login(p, e, w) ==
    /\ ops < MaxOps /\ req[p] = Idle
    /\ Matches(e, w)
    /\ Issue(e) /\ ops' = ops + 1
    /\ UNCHANGED <<users, verifs, resets, req>>

\* A refresh issues a new pair and revokes nothing; neither does a logout.
RefreshOrLogout(p, e) ==
    /\ ops < MaxOps /\ req[p] = Idle /\ Authorized(e)
    /\ ops' = ops + 1
    /\ UNCHANGED <<users, verifs, resets, req, tokens>>
-----------------------------------------------------------------------------
(* Password change and reset *)

\* platform_change_password has a token of the account; the current password is
\* checked ...
ChangeStart(p, e, w, n) ==
    /\ Authorized(e) /\ Matches(e, w)
    /\ Begin(p, [Idle EXCEPT !.op = "change", !.pc = "update", !.email = e, !.pw = w, !.new = n,
                             !.held = {users[e]}])
    /\ UNCHANGED <<users, verifs, resets, tokens>>

\* ... and update_platform_user_password writes without looking again.
ChangeUpdate(p) ==
    /\ At(p, "change", "update")
    /\ SetPassword(req[p].email, req[p].new, p, Idle)
    /\ UNCHANGED <<verifs, resets, tokens, ops>>

\* Only an account with a password gets a request.
HasPassword(e) == Exists(e)

\* create_platform_password_reset_request, the mail in the background; an
\* unknown email is answered in the same way and nothing is stored.
RequestReset(p, e, s) ==
    /\ req[p] = Idle /\ ops < MaxOps /\ Len(resets) < MaxRows
    /\ ops' = ops + 1
    /\ IF HasPassword(e) THEN InsertReset(e, s) ELSE UNCHANGED resets
    /\ UNCHANGED <<users, verifs, req, tokens>>

\* confirm_platform_password_reset: find the request by account and code.
ConfirmStart(p, e, i, s, n) ==
    /\ Exists(e) /\ FindsReset(e, i)
    /\ Begin(p, [Idle EXCEPT !.op = "confirm", !.pc = "compare", !.email = e, !.row = i, !.secret = s,
                             !.new = n, !.held = {users[e]}])
    /\ resets' = [resets EXCEPT ![i].shared = @ \/ \E q \in Requests : req[q].op = "confirm" /\ req[q].row = i]
    /\ UNCHANGED <<users, verifs, tokens>>

\* The hash of the secret is compared in constant time; then the new password
\* is hashed.
ConfirmCompare(p) ==
    /\ At(p, "confirm", "compare")
    /\ IF req[p].secret = resets[req[p].row].secret THEN Step(p, "update") ELSE Reply(p)
    /\ UNCHANGED <<users, verifs, resets, tokens, ops>>

\* The password is written in one statement ...
ConfirmUpdate(p) ==
    /\ At(p, "confirm", "update")
    /\ SetPassword(req[p].email, req[p].new, p, [req[p] EXCEPT !.pc = "mark"])
    /\ resets' = [resets EXCEPT ![req[p].row].writes = @ + 1]
    /\ UNCHANGED <<verifs, tokens, ops>>

\* ... and mark_as_reset is the next.
ConfirmMark(p) ==
    /\ At(p, "confirm", "mark")
    /\ resets' = [resets EXCEPT ![req[p].row].used = TRUE]
    /\ Reply(p)
    /\ UNCHANGED <<users, verifs, tokens, ops>>
-----------------------------------------------------------------------------
(* Email verification *)

\* verify_platform_email reads the row of the code; a verified one is answered
\* as such, an expired one refused.
VerifyRead(p, i) ==
    /\ verifs[i].live /\ ~verifs[i].verified /\ ~verifs[i].expired
    /\ Begin(p, [Idle EXCEPT !.op = "verify", !.pc = "update", !.email = verifs[i].user, !.row = i])
    /\ UNCHANGED <<users, verifs, resets, tokens>>

\* verify(): the update is by id and changes nothing when the row is gone. It looks once more
\* whether the row it read is verified or expired; without that look, more is possible here.
VerifyUpdate(p) ==
    /\ At(p, "verify", "update")
    /\ verifs' = [verifs EXCEPT ![req[p].row].verified = @ \/ verifs[req[p].row].live]
    /\ Reply(p)
    /\ UNCHANGED <<users, resets, tokens, ops>>

Unverified(i) == ~verifs[i].verified

\* request_platform_verification: a row that is verified ends it; otherwise the
\* row is deleted and a new one inserted.
AskRead(p, e) ==
    /\ Authorized(e)
    /\ \/ /\ VerificationRows(e) = {}
          /\ Begin(p, [Idle EXCEPT !.op = "ask", !.pc = "insert", !.email = e])
       \/ \E i \in VerificationRows(e) :
            /\ Unverified(i)
            /\ Begin(p, [Idle EXCEPT !.op = "ask", !.pc = "delete", !.email = e, !.row = i])
    /\ UNCHANGED <<users, verifs, resets, tokens>>

\* The delete is by id, whatever the row says by now.
AskDelete(p) ==
    /\ At(p, "ask", "delete")
    /\ verifs' = [verifs EXCEPT ![req[p].row].live = FALSE]
    /\ Step(p, "insert")
    /\ UNCHANGED <<users, resets, tokens, ops>>

AskInsert(p) ==
    /\ At(p, "ask", "insert") /\ Len(verifs) < MaxRows
    /\ InsertVerification(req[p].email)
    /\ Reply(p)
    /\ UNCHANGED <<users, resets, tokens, ops>>

\* A day passes.
Expire ==
    /\ \/ \E i \in DOMAIN verifs : ~verifs[i].expired
                                   /\ verifs' = [verifs EXCEPT ![i].expired = TRUE] /\ UNCHANGED resets
       \/ \E i \in DOMAIN resets : ~resets[i].expired
                                   /\ resets' = [resets EXCEPT ![i].expired = TRUE] /\ UNCHANGED verifs
    /\ UNCHANGED <<users, req, tokens, ops>>
-----------------------------------------------------------------------------
Account(p) ==
    \/ \E e \in Emails, w \in Passwords :
         \/ RegisterStart(p, e, w) \/ Login(p, e, w)
         \/ \E n \in Passwords : ChangeStart(p, e, w, n)
         \/ \E i \in DOMAIN resets, s \in Secrets : ConfirmStart(p, e, i, s, w)
    \/ \E e \in Emails, s \in Secrets : RequestReset(p, e, s)
    \/ \E e \in Emails : RefreshOrLogout(p, e)
    \/ RegisterInsert(p) \/ RegisterVerification(p) \/ ChangeUpdate(p)
    \/ ConfirmCompare(p) \/ ConfirmUpdate(p) \/ ConfirmMark(p)
    \/ Fail(p)

Verification(p) ==
    \/ \E i \in DOMAIN verifs : VerifyRead(p, i)
    \/ \E e \in Emails : AskRead(p, e)
    \/ VerifyUpdate(p) \/ AskDelete(p) \/ AskInsert(p)

Next == Expire \/ \E p \in Requests : Account(p) \/ Verification(p)

Spec == Init /\ [][Next]_vars
-----------------------------------------------------------------------------
TypeOK ==
    /\ users \in [Emails -> Passwords \union {NoUser}]
    /\ \A i \in DOMAIN verifs : verifs[i].user \in Emails /\ Exists(verifs[i].user)
    /\ \A i \in DOMAIN resets : resets[i].user \in Emails /\ Exists(resets[i].user)
    /\ tokens \subseteq { e \in Emails : Exists(e) }
    /\ Len(verifs) <= MaxRows /\ Len(resets) <= MaxRows
    /\ \A p \in Requests : req[p].row \in 0 .. MaxRows /\ req[p].held \subseteq Passwords

\* A password changes only by a request that presented a password current at
\* some time while it ran, or a code and secret of a reset of the same account:
\* no registration, and no reset of another account, changes it, in any
\* interleaving.
PasswordAuthority ==
    [][\A e \in Emails : Exists(e) /\ users'[e] # users[e] =>
         \E p \in Requests :
            /\ req[p].email = e
            /\ \/ req[p].op = "change" /\ req[p].pw \in req[p].held
               \/ req[p].op = "confirm" /\ resets[req[p].row].user = e
                  /\ resets[req[p].row].secret = req[p].secret]_vars

\* A reset code changes the password once.  The password and the mark are two
\* statements, and these are the only two ways round it: two confirmations of
\* the code overlapped, or one failed between the statements.
CodeWritesOnce ==
    \A i \in DOMAIN resets : resets[i].writes <= 1 \/ resets[i].shared \/ resets[i].cut

\* A verified account keeps its one row, which stays verified.
Verified(e) == VerificationRows(e) # {} /\ \A i \in VerificationRows(e) : verifs[i].verified
StaysVerified == \A e \in Emails : Verified(e) => Verified(e)'
=============================================================================
