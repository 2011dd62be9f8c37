----------------------------- MODULE OAuthFlow -----------------------------
(*****************************************************************************)
(* Sign-in through an OAuth provider: the bounded, expiring store of issued  *)
(* states (oauth.rs), the authorization, the callback and the native Apple   *)
(* sign-in (oauth_routes.rs), and the accounts and connections they find or  *)
(* create (models/oauth.rs, main.rs).                                        *)
(*                                                                           *)
(* Callbacks run concurrently; each lock, statement, transaction and call to *)
(* the provider is a step, and any may fail.  A CSRF token is unguessable    *)
(* and named by the number of its authorization; it may come back any number *)
(* of times, with any client id.  The provider is external: it vouches for a *)
(* subject and one of the subject's addresses.                               *)
(*****************************************************************************)
EXTENDS Integers, Sequences, FiniteSets

CONSTANTS
    Providers, Projects, Subjects, Emails,
    EmailsOf,     \* the addresses a provider reports for a subject, or a native
                  \* client supplies when the token carries none
    Callbacks,    \* callbacks in flight at most
    Native,       \* the provider with a native sign-in (Apple)
    Ttl,          \* OAUTH_STATE_TTL
    Capacity,     \* OAUTH_STATE_CAPACITY
    MaxTime,      \* bound on the clock
    MaxStates,    \* bound: authorizations started
    MaxUsers      \* bound: accounts

ASSUME OAuthAssumption ==
    /\ EmailsOf \in [Subjects -> SUBSET Emails]
    /\ Ttl \in Nat \ {0} /\ Capacity \in Nat \ {0}
    /\ MaxTime \in Nat /\ MaxStates \in Nat /\ MaxUsers \in Nat

VARIABLES
    now,
    store,      \* OAuthStateStore of each provider
    issued,     \* authorizations started: the provider and project of each token
    passed,     \* history: the state validations that succeeded
    enabled,    \* project settings: the providers enabled
    users,      \* accounts: email, project, connections
    cb,         \* the callbacks
    signedIn    \* history: sessions given out

vars == <<now, store, issued, passed, enabled, users, cb, signedIn>>

Idle == [pc |-> "idle"]

Init ==
    /\ now = 0
    /\ store = [v \in Providers |-> {}]
    /\ issued = <<>> /\ passed = {}
    /\ enabled = Providers \X Projects
    /\ users = <<>> /\ cb = [c \in Callbacks |-> Idle] /\ signedIn = {}
-----------------------------------------------------------------------------
(* The state store *)

Retain(entries) == { s \in entries : s.expires > now }

\* store_at: prune, refuse at capacity, insert.
StoreAt(entries, s) == Retain(entries) \union {s}

Full(entries) == Cardinality(Retain(entries)) >= Capacity

\* Mutant: the project of the state is not compared.
TokenMatches(entries, token, project) == { s \in Retain(entries) : s.token = token }

\* consume_at compares the whole state.
MatchingState(entries, token, project) ==
    { s \in Retain(entries) : s.token = token /\ s.project = project }

\* Mutant: a mismatch burns the state.
BurnToken(entries, token, project) == { s \in Retain(entries) : s.token # token }

\* What is left after a callback, matching or not.
AfterConsume(entries, token, project) == Retain(entries) \ MatchingState(entries, token, project)

\* get_project_oauth_client: enabled, with settings and a secret.
Configured(v, p) == <<v, p>> \in enabled

\* initiate_oauth: the provider must be enabled and configured; a full store
\* answers TooManyRequests.
Initiate(v, p) ==
    /\ Len(issued) < MaxStates /\ Configured(v, p)
    /\ ~Full(store[v])
    /\ LET s == [token |-> Len(issued) + 1, project |-> p, expires |-> now + Ttl]
       IN store' = [store EXCEPT ![v] = StoreAt(@, s)]
    /\ issued' = Append(issued, [provider |-> v, project |-> p, at |-> now])
    /\ UNCHANGED <<now, passed, enabled, users, cb, signedIn>>

\* A callback arrives with a state; anything but a full match is refused.
Callback(c, v, token, p) ==
    /\ cb[c] = Idle
    /\ store' = [store EXCEPT ![v] = AfterConsume(@, token, p)]
    /\ IF MatchingState(store[v], token, p) # {}
       THEN /\ passed' = passed \union {[token |-> token, provider |-> v, project |-> p, at |-> now, by |-> c]}
            /\ cb' = [cb EXCEPT ![c] = [pc |-> "client", provider |-> v, project |-> p, token |-> token]]
       ELSE UNCHANGED <<passed, cb>>
    /\ UNCHANGED <<now, issued, enabled, users, signedIn>>
-----------------------------------------------------------------------------
(* The callback *)

\* get_project_oauth_client: the settings are read again, they may have changed.
BuildClient(c) ==
    /\ cb[c].pc = "client"
    /\ cb' = [cb EXCEPT ![c] = IF Configured(cb[c].provider, cb[c].project)
                               THEN [cb[c] EXCEPT !.pc = "exchange"] ELSE Idle]
    /\ UNCHANGED <<now, store, issued, passed, enabled, users, signedIn>>

Identified(v, p, s, e, again) ==
    [pc |-> "find", provider |-> v, project |-> p, subject |-> s, email |-> e, again |-> again]

\* fetch_github_user, fetch_google_user: a subject with a verified address, which Apple's
\* need not be.
Vouched == UNION { [subject : {s}, email : EmailsOf[s]] : s \in Subjects }

\* The code is exchanged; Apple's settings are read again, but not whether the
\* provider is still enabled.
ExchangeCode(c) ==
    /\ cb[c].pc = "exchange"
    /\ cb' = [cb EXCEPT ![c].pc = "fetch"]
    /\ UNCHANGED <<now, store, issued, passed, enabled, users, signedIn>>

FetchUser(c) ==
    /\ cb[c].pc = "fetch"
    /\ \E x \in Vouched :
         cb' = [cb EXCEPT ![c] = Identified(cb[c].provider, cb[c].project, x.subject, x.email, FALSE)]
    /\ UNCHANGED <<now, store, issued, passed, enabled, users, signedIn>>

\* handle_apple_native_signin: an identity token instead of a state; it looks
\* for the connection itself before find_or_create_user_from_oauth does. The address is the
\* token's or, where it has none, the client's; neither needs to be a verified one.
NativeSignin(c, p) ==
    /\ cb[c] = Idle /\ Configured(Native, p)
    /\ \E x \in Vouched : cb' = [cb EXCEPT ![c] = Identified(Native, p, x.subject, x.email, TRUE)]
    /\ UNCHANGED <<now, store, issued, passed, enabled, users, signedIn>>

\* get_by_provider_subject_and_project.
Connected(v, p, s, e) ==
    { u \in DOMAIN users : users[u].project = p /\ <<v, s>> \in users[u].connections }

\* Two accounts with the subject are an error.
Unambiguous(found) == Cardinality(found) = 1

SessionFor(c, u) ==
    signedIn' = signedIn \union
        {[user |-> u, provider |-> cb[c].provider, project |-> cb[c].project, subject |-> cb[c].subject]}

FindConnection(c) ==
    /\ cb[c].pc = "find"
    /\ LET found == Connected(cb[c].provider, cb[c].project, cb[c].subject, cb[c].email) IN
       \/ /\ found = {}
          /\ cb' = [cb EXCEPT ![c].pc = IF cb[c].again THEN "find" ELSE "email", ![c].again = FALSE]
       \/ /\ found # {} /\ Unambiguous(found)
          /\ \E u \in found : cb' = [cb EXCEPT ![c] = [cb[c] EXCEPT !.pc = "known", !.again = u]]
       \/ /\ found # {} /\ ~Unambiguous(found)
          /\ cb' = [cb EXCEPT ![c] = Idle]
    /\ UNCHANGED <<now, store, issued, passed, enabled, users, signedIn>>

\* update_provider_connection, the seed wrap check and the tokens.
SignInKnown(c) ==
    /\ cb[c].pc = "known"
    /\ SessionFor(c, cb[c].again)
    /\ cb' = [cb EXCEPT ![c] = Idle]
    /\ UNCHANGED <<now, store, issued, passed, enabled, users>>

Taken(e, p) == \E u \in DOMAIN users : users[u].email = e /\ users[u].project = p

\* An account with the address exists: UserExistsNotLinked.
LookUpEmail(c) ==
    /\ cb[c].pc = "email"
    /\ cb' = [cb EXCEPT ![c] = IF Taken(cb[c].email, cb[c].project) THEN Idle
                               ELSE [cb[c] EXCEPT !.pc = "create"]]
    /\ UNCHANGED <<now, store, issued, passed, enabled, users, signedIn>>

\* users_email_project_unique.
UniqueViolated(e, p) == Taken(e, p)

\* The new account and its connection.
NewAccount(c) == [email |-> cb[c].email, project |-> cb[c].project,
                  connections |-> {<<cb[c].provider, cb[c].subject>>}]

\* create_user_with_oauth_seed_wrap: account, connection, wrap and verification
\* in one transaction.
CreateAccount(c) ==
    /\ cb[c].pc = "create"
    /\ IF UniqueViolated(cb[c].email, cb[c].project)
       THEN UNCHANGED <<users, signedIn>>
       ELSE /\ Len(users) < MaxUsers
            /\ users' = Append(users, NewAccount(c))
            /\ SessionFor(c, Len(users) + 1)
    /\ cb' = [cb EXCEPT ![c] = Idle]
    /\ UNCHANGED <<now, store, issued, passed, enabled>>

\* Any step fails, or the caller's connection is lost.
Fail(c) ==
    /\ cb[c] # Idle
    /\ cb' = [cb EXCEPT ![c] = Idle]
    /\ UNCHANGED <<now, store, issued, passed, enabled, users, signedIn>>
-----------------------------------------------------------------------------
(* The rest of the system *)

\* A registration with a password.
Register(e, p) ==
    /\ ~Taken(e, p) /\ Len(users) < MaxUsers
    /\ users' = Append(users, [email |-> e, project |-> p, connections |-> {}])
    /\ UNCHANGED <<now, store, issued, passed, enabled, cb, signedIn>>

\* The project's owner turns a provider off.
Disable(v, p) ==
    /\ <<v, p>> \in enabled
    /\ enabled' = enabled \ {<<v, p>>}
    /\ UNCHANGED <<now, store, issued, passed, users, cb, signedIn>>

Tick == now < MaxTime /\ now' = now + 1 /\ UNCHANGED <<store, issued, passed, enabled, users, cb, signedIn>>

Next ==
    \/ Tick
    \/ \E v \in Providers, p \in Projects :
         Initiate(v, p) \/ Disable(v, p)
         \/ \E c \in Callbacks, t \in DOMAIN issued : Callback(c, v, t, p)
    \/ \E e \in Emails, p \in Projects : Register(e, p)
    \/ \E c \in Callbacks :
         \/ \E p \in Projects : NativeSignin(c, p)
         \/ BuildClient(c) \/ ExchangeCode(c) \/ FetchUser(c) \/ FindConnection(c) \/ SignInKnown(c)
         \/ LookUpEmail(c) \/ CreateAccount(c) \/ Fail(c)

Spec == Init /\ [][Next]_vars
-----------------------------------------------------------------------------
TypeOK ==
    /\ now \in 0 .. MaxTime
    /\ \A v \in Providers : \A s \in store[v] :
         s.token \in DOMAIN issued /\ s.project \in Projects /\ s.expires <= now + Ttl
    /\ enabled \subseteq Providers \X Projects
    /\ \A u \in DOMAIN users : users[u].email \in Emails /\ users[u].project \in Projects
    /\ \A x \in signedIn : x.user \in DOMAIN users

\* A state that was issued validates at most one callback, of the provider and
\* project it was issued for, within its lifetime, though it comes back several
\* times at once, altered or late.
StateUsedOnce ==
    /\ \A x \in passed : /\ issued[x.token].provider = x.provider /\ issued[x.token].project = x.project
                         /\ x.at < issued[x.token].at + Ttl
    /\ \A x, y \in passed : x.token = y.token => x = y

\* A state leaves its store only by its own callback or by expiring: neither an
\* altered callback nor a full store takes a sign-in away from its user.
OnlyItsCallbackConsumes ==
    [][\A v \in Providers : \A s \in store[v] :
         s \notin store'[v] => s.expires <= now \/ \E x \in passed' : x.token = s.token]_vars

\* The store never grows past its capacity.
WithinCapacity == \A v \in Providers : Cardinality(store[v]) <= Capacity

\* A session is for an account with a connection of that provider and subject in
\* that project, and with an address that a sign-in of that subject brought: vouched for by
\* GitHub and Google, in the token or from the client in a native Apple sign-in. An account
\* is never reached by its address alone, nor from another project.
SubjectOwnsAccount ==
    \A x \in signedIn : /\ users[x.user].project = x.project
                        /\ <<x.provider, x.subject>> \in users[x.user].connections
                        /\ users[x.user].email \in EmailsOf[x.subject]

\* Concurrent first sign-ins give a subject one account for an address: with one
\* address, a provider's subject always reaches the same account.
OneAccountPerSubject ==
    \A x, y \in signedIn :
        [x EXCEPT !.user = 0] = [y EXCEPT !.user = 0] /\ users[x.user].email = users[y.user].email => x = y

\* When a subject whose address changed has got two accounts, no sign-in found by
\* its connection picks one of them.
AmbiguousIsRefused ==
    [][\A c \in Callbacks :
         cb[c].pc = "find" /\ cb'[c].pc = "known" =>
             Cardinality(Connected(cb[c].provider, cb[c].project, cb[c].subject, cb[c].email)) <= 1]_vars
=============================================================================
