------------------------- MODULE EmailVerification -------------------------
(*****************************************************************************)
(* The verification of a user's address (login_routes.rs,                    *)
(* protected_routes.rs, main.rs, models/email_verification.rs): a row per    *)
(* code, read, deleted and written by concurrent requests, each statement a  *)
(* step of its own; a request may fail or be dropped between two of them.    *)
(* An account made by an OAuth sign-in gets a row that is verified already.  *)
(*****************************************************************************)
EXTENDS Naturals, FiniteSets

CONSTANTS
    Users,
    Requests,   \* requests in flight at most
    MaxRows     \* bound: verification rows ever inserted

VerificationAssumption == MaxRows \in Nat

VARIABLES
    accounts,   \* registered users
    rows,       \* email_verifications; a row's id is also its code
    inserted,   \* rows inserted so far
    federated,  \* history: users registered by an OAuth sign-in
    proven,     \* history: users whose code came back in time
    told,       \* history: users answered "Email verified successfully"
    crossed,    \* history: users with a request for a code that overlapped another one
    req

vars == <<accounts, rows, inserted, federated, proven, told, crossed, req>>

Idle == [pc |-> "idle"]

Init ==
    /\ accounts = {} /\ rows = {} /\ inserted = 0
    /\ federated = {} /\ proven = {} /\ told = {} /\ crossed = {}
    /\ req = [r \in Requests |-> Idle]

NewRow(u, verified) == [id |-> inserted + 1, user |-> u, verified |-> verified, expired |-> FALSE]

\* A request about user u begins while another one, at one of these places, is about u too.
Crosses(u, places) == \E s \in Requests : req[s].pc \in places /\ req[s].row.user = u
Meets(u, places) == crossed' = IF Crosses(u, places) THEN crossed \union {u} ELSE crossed
Any == {"verify", "delete", "insert"}

\* register: the account, and then handle_new_user_registration, which inserts the first
\* row, if it gets that far.
Register(r, u) ==
    /\ req[r] = Idle /\ u \notin accounts /\ accounts' = accounts \union {u}
    /\ req' = [req EXCEPT ![r] = [pc |-> "insert", row |-> [user |-> u]]]
    /\ UNCHANGED <<rows, inserted, federated, proven, told, crossed>>

\* create_user_with_oauth_seed_wrap: the account and a verified row, in one transaction.
RegisterOAuth(u) ==
    /\ u \notin accounts /\ accounts' = accounts \union {u} /\ federated' = federated \union {u}
    /\ inserted < MaxRows /\ rows' = rows \union {NewRow(u, TRUE)} /\ inserted' = inserted + 1
    /\ UNCHANGED <<proven, told, crossed, req>>

Expire(x) ==
    /\ ~x.expired
    /\ rows' = (rows \ {x}) \union {[x EXCEPT !.expired = TRUE]}
    /\ UNCHANGED <<accounts, inserted, federated, proven, told, crossed, req>>
-----------------------------------------------------------------------------

Pending(x) == ~x.expired /\ ~x.verified

\* verify_email reads the row by its code; a verified one is answered at once.
VerifyRead(r, x) ==
    /\ req[r] = Idle /\ x \in rows /\ Pending(x)
    /\ req' = [req EXCEPT ![r] = [pc |-> "verify", row |-> x]]
    /\ proven' = IF x.expired THEN proven ELSE proven \union {x.user}
    /\ Meets(x.user, {"delete", "insert"})
    /\ UNCHANGED <<accounts, rows, inserted, federated, told>>

\* EmailVerification::verify writes the row back by its id; no row is no error.
VerifyUpdate(r) ==
    /\ req[r].pc = "verify"
    /\ LET old == { x \in rows : x.id = req[r].row.id } IN
       rows' = (rows \ old) \union { [x EXCEPT !.verified = TRUE] : x \in old }
    /\ told' = told \union {req[r].row.user}
    /\ req' = [req EXCEPT ![r] = Idle]
    /\ UNCHANGED <<accounts, inserted, federated, proven, crossed>>
-----------------------------------------------------------------------------
\* get_email_verification_by_user_id: any of the user's rows.
Row(u) == { x \in rows : x.user = u }

MayAsk(x) == ~x.verified

\* request_new_verification_code: a verified user is turned away.
AskRead(r, u) ==
    /\ req[r] = Idle /\ u \in accounts /\ inserted < MaxRows
    /\ \/ \E x \in Row(u) : MayAsk(x) /\ req' = [req EXCEPT ![r] = [pc |-> "delete", row |-> x]]
       \/ Row(u) = {} /\ req' = [req EXCEPT ![r] = [pc |-> "insert", row |-> [user |-> u]]]
    /\ Meets(u, Any)
    /\ UNCHANGED <<accounts, rows, inserted, federated, proven, told>>

\* The old row is deleted by its id, whatever it says by now.
AskDelete(r) ==
    /\ req[r].pc = "delete"
    /\ rows' = { x \in rows : x.id # req[r].row.id }
    /\ req' = [req EXCEPT ![r] = [pc |-> "insert", row |-> [user |-> req[r].row.user]]]
    /\ UNCHANGED <<accounts, inserted, federated, proven, told, crossed>>

FreshRow(u) == NewRow(u, FALSE)

AskInsert(r) ==
    /\ req[r].pc = "insert" /\ inserted < MaxRows
    /\ rows' = rows \union {FreshRow(req[r].row.user)} /\ inserted' = inserted + 1
    /\ req' = [req EXCEPT ![r] = Idle]
    /\ UNCHANGED <<accounts, federated, proven, told, crossed>>

\* A statement fails, or the caller goes away.
Fail(r) ==
    /\ req[r] # Idle /\ req' = [req EXCEPT ![r] = Idle]
    /\ UNCHANGED <<accounts, rows, inserted, federated, proven, told, crossed>>

Next ==
    \/ \E u \in Users : RegisterOAuth(u)
    \/ \E x \in rows : Expire(x)
    \/ \E r \in Requests :
         \/ \E u \in Users : Register(r, u) \/ AskRead(r, u)
         \/ \E x \in rows : VerifyRead(r, x)
         \/ VerifyUpdate(r) \/ AskDelete(r) \/ AskInsert(r) \/ Fail(r)

Spec == Init /\ [][Next]_vars
-----------------------------------------------------------------------------
\* An address is reported as verified (user_protected, by whichever row it finds) only if
\* the account was made by an OAuth sign-in ("OAuth-created users should have verified email
\* rows") or a code of that user came back in time, however requests for new codes overlap.
VerifiedForAReason == \A x \in rows : x.verified => x.user \in federated \union proven

\* A user who was told that the address is verified finds it verified from then on,
\* whichever requests for new codes follow or fail and whatever other users do, unless a
\* request for a code overlapped another request of that user's.
ToldIsVerified ==
    \A u \in told \ crossed : Row(u) # {} /\ \A x \in Row(u) : x.verified

\* An account made by an OAuth sign-in is reported as verified for good: no request for a
\* code ever replaces its row.
FederatedIsVerified == \A u \in federated : Row(u) # {} /\ \A x \in Row(u) : x.verified
=============================================================================
