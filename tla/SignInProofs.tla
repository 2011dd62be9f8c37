----------------------------- MODULE SignInProofs -----------------------------
(*****************************************************************************)
(* Third-party sign-in, for any number of providers, projects, subjects,     *)
(* addresses, callbacks, states and accounts, and any capacity and TTL; and  *)
(* the keys of Apple's tokens, for any number of keys and sign-ins.          *)
(*                                                                           *)
(* That a state serves one callback needs what the store holds: an entry is  *)
(* the one that was issued with its token, and no token in a store has       *)
(* passed (StoreInv).  That a session is for the subject's own account needs *)
(* what a callback carries across its steps: the account it found stays      *)
(* connected, because accounts are only added (CallbackInv).                 *)
(*****************************************************************************)
EXTENDS MCSignIn, FiniteSetTheorems, SequenceTheorems, TLAPS

Entry == [token : Nat, project : Projects, expires : Nat]
Issue == [provider : Providers, project : Projects, at : Nat]
Pass == [token : Nat, provider : Providers, project : Projects, at : Nat, by : Callbacks]
Account == [email : Emails, project : Projects, connections : SUBSET (Providers \X Subjects)]
Session == [user : Nat, provider : Providers, project : Projects, subject : Subjects]
Awaiting == [pc : {"client", "exchange", "fetch"}, provider : Providers, project : Projects, token : Nat]
Looking == [pc : {"find", "email", "create"}, provider : Providers, project : Projects,
            subject : Subjects, email : Emails, again : BOOLEAN]
Knowing == [pc : {"known"}, provider : Providers, project : Projects,
            subject : Subjects, email : Emails, again : Nat]

\* The shapes of the variables.
Shapes ==
    /\ now \in Nat /\ now <= MaxTime
    /\ store \in [Providers -> SUBSET Entry] /\ issued \in Seq(Issue) /\ passed \subseteq Pass
    /\ enabled \subseteq Providers \X Projects /\ users \in Seq(Account) /\ signedIn \subseteq Session

\* An entry of a store is what was issued with its token, which has not passed.
StoreInv ==
    /\ \A t \in 1 .. Len(issued) : issued[t].at <= now
    /\ \A v \in Providers : \A s \in store[v] :
         /\ s.token \in 1 .. Len(issued)
         /\ issued[s.token].provider = v /\ issued[s.token].project = s.project
         /\ s.expires = issued[s.token].at + Ttl
         /\ \A x \in passed : x.token # s.token
    /\ \A v \in Providers : IsFiniteSet(store[v]) /\ Cardinality(store[v]) <= Capacity

PassedInv == (\A x \in passed : x.token \in 1 .. Len(issued)) /\ StateUsedOnce

\* users_email_project_unique, and connections come with a vouched address.
AccountInv ==
    /\ \A a, b \in 1 .. Len(users) : users[a].email = users[b].email /\ users[a].project = users[b].project => a = b
    /\ \A u \in 1 .. Len(users) : \A w \in users[u].connections : users[u].email \in EmailsOf[w[2]]

\* What a callback carries.
CallbackOk(k) ==
    \/ k = Idle
    \/ k \in Awaiting
    \/ k \in Looking /\ k.email \in EmailsOf[k.subject]
    \/ k \in Knowing /\ k.again \in Connected(k.provider, k.project, k.subject, k.email)

CallbackInv ==
    /\ DOMAIN cb = Callbacks /\ cb = [c \in Callbacks |-> cb[c]]
    /\ \A c \in Callbacks : CallbackOk(cb[c])

SessionInv == (\A x \in signedIn : x.user \in 1 .. Len(users)) /\ SubjectOwnsAccount

SignInIInv == Shapes /\ StoreInv /\ PassedInv /\ AccountInv /\ CallbackInv /\ SessionInv
-----------------------------------------------------------------------------
(* Nothing is issued, stored or signed in at the start.                         *)
LEMMA SignInInit == ASSUME Init PROVE SignInIInv
<1> USE OAuthAssumption DEF Init, OAuthAssumption
<1>1. Shapes
  BY DEF Shapes
<1>2. StoreInv
  BY FS_EmptySet DEF StoreInv
<1>3. PassedInv /\ AccountInv /\ SessionInv
  BY DEF PassedInv, StateUsedOnce, AccountInv, SessionInv, SubjectOwnsAccount
<1>4. CallbackInv
  BY DEF CallbackInv, CallbackOk
<1> QED BY <1>1, <1>2, <1>3, <1>4 DEF SignInIInv

(* Pruning and consuming only take entries out of a store.                      *)
LEMMA RetainIsSmaller ==
    ASSUME NEW S, IsFiniteSet(S), Cardinality(S) <= Capacity, NEW T \in SUBSET S
    PROVE  IsFiniteSet(T) /\ Cardinality(T) <= Capacity /\ Cardinality(T) \in Nat
BY FS_Subset, FS_CardinalityType, OAuthAssumption DEF OAuthAssumption

(* An authorization adds an entry with a token of its own to a store that is    *)
(* not full.                                                                    *)
LEMMA InitiatePreserves ==
    ASSUME SignInIInv, NEW v \in Providers, NEW p \in Projects, Initiate(v, p)
    PROVE  SignInIInv'
<1> DEFINE s == [token |-> Len(issued) + 1, project |-> p, expires |-> now + Ttl]
<1> DEFINE i == [provider |-> v, project |-> p, at |-> now]
<1>a. now \in Nat /\ Ttl \in Nat \ {0} /\ issued \in Seq(Issue) /\ store \in [Providers -> SUBSET Entry]
  BY OAuthAssumption DEF OAuthAssumption, SignInIInv, Shapes
<1>1. s \in Entry /\ i \in Issue
  BY <1>a, LenProperties DEF Entry, Issue
<1>2. issued' = Append(issued, i) /\ store' = [store EXCEPT ![v] = Retain(store[v]) \union {s}]
  BY DEF Initiate, StoreAt
<1>3. /\ issued' \in Seq(Issue) /\ Len(issued') = Len(issued) + 1 /\ Len(issued) \in Nat
      /\ issued'[Len(issued) + 1] = i
      /\ \A t \in 1 .. Len(issued) : issued'[t] = issued[t]
  BY <1>a, <1>1, <1>2, AppendProperties, LenProperties
<1>4. Retain(store[v]) \in SUBSET store[v]
  BY DEF Retain
<1>5. /\ store' \in [Providers -> SUBSET Entry]
      /\ store'[v] = Retain(store[v]) \union {s}
      /\ \A w \in Providers \ {v} : store'[w] = store[w]
  BY <1>a, <1>1, <1>2, <1>4
<1>6. UNCHANGED <<now, passed, enabled, users, cb, signedIn>>
  BY DEF Initiate
<1>7. Shapes'
  BY <1>3, <1>5, <1>6 DEF SignInIInv, Shapes
<1>8. IsFiniteSet(store'[v]) /\ Cardinality(store'[v]) <= Capacity
  <2>1. IsFiniteSet(Retain(store[v])) /\ Cardinality(Retain(store[v])) \in Nat
    BY <1>4, RetainIsSmaller DEF SignInIInv, StoreInv
  <2>2. Cardinality(Retain(store[v])) < Capacity
    BY <2>1, OAuthAssumption DEF OAuthAssumption, Initiate, Full
  <2>3. /\ IsFiniteSet(Retain(store[v]) \union {s})
        /\ \/ Cardinality(Retain(store[v]) \union {s}) = Cardinality(Retain(store[v]))
           \/ Cardinality(Retain(store[v]) \union {s}) = Cardinality(Retain(store[v])) + 1
    BY <2>1, FS_AddElement
  <2> HIDE DEF s
  <2> QED BY <1>5, <2>1, <2>2, <2>3, OAuthAssumption DEF OAuthAssumption
<1>9. StoreInv'
  <2>1. \A t \in 1 .. Len(issued') : issued'[t].at <= now'
    BY <1>a, <1>3, <1>6 DEF SignInIInv, StoreInv
  <2>2. ASSUME NEW w \in Providers, NEW e \in store'[w]
        PROVE  /\ e.token \in 1 .. Len(issued')
               /\ issued'[e.token].provider = w /\ issued'[e.token].project = e.project
               /\ e.expires = issued'[e.token].at + Ttl
               /\ \A x \in passed' : x.token # e.token
    <3>1. CASE e \in store[w]
      BY <1>3, <1>6, <3>1 DEF SignInIInv, StoreInv
    <3>2. CASE w = v /\ e = s
      BY <1>3, <1>6, <3>2 DEF SignInIInv, PassedInv
    <3> QED BY <1>4, <1>5, <2>2, <3>1, <3>2
  <2>3. ASSUME NEW w \in Providers PROVE IsFiniteSet(store'[w]) /\ Cardinality(store'[w]) <= Capacity
    BY <1>5, <1>8 DEF SignInIInv, StoreInv
  <2> QED BY <2>1, <2>2, <2>3 DEF StoreInv
<1>10. PassedInv'
  BY <1>3, <1>6 DEF SignInIInv, PassedInv, StateUsedOnce
<1>11. AccountInv' /\ CallbackInv' /\ SessionInv'
  BY <1>6
  DEF SignInIInv, AccountInv, CallbackInv, CallbackOk, Connected, SessionInv, SubjectOwnsAccount
<1> QED BY <1>7, <1>9, <1>10, <1>11 DEF SignInIInv

(* A callback that changes takes on a value that is in order; accounts are as   *)
(* they were.                                                                   *)
LEMMA CallbackMoves ==
    ASSUME CallbackInv, NEW c \in Callbacks, NEW k, cb' = [cb EXCEPT ![c] = k],
           CallbackOk(k), users' = users
    PROVE  CallbackInv'
<1>1. \A d \in Callbacks : cb'[d] = IF d = c THEN k ELSE cb[d]
  BY DEF CallbackInv
<1>2. \A d \in Callbacks : CallbackOk(cb[d])' = CallbackOk(cb'[d])
  BY DEF CallbackOk, Connected
<1>3. \A d \in Callbacks : CallbackOk(cb'[d])
  BY <1>1 DEF CallbackInv
<1>4. DOMAIN cb' = Callbacks /\ cb' = [d \in Callbacks |-> cb'[d]]
  BY DEF CallbackInv
<1> QED BY <1>2, <1>3, <1>4 DEF CallbackInv

(* A state that comes back: the entry that matches it leaves the store in the   *)
(* step in which it passes.                                                     *)
LEMMA CallbackPreserves ==
    ASSUME SignInIInv, NEW c \in Callbacks, NEW v \in Providers, NEW p \in Projects,
           NEW t \in DOMAIN issued, Callback(c, v, t, p)
    PROVE  SignInIInv'
<1>a. now \in Nat /\ Ttl \in Nat \ {0} /\ issued \in Seq(Issue) /\ store \in [Providers -> SUBSET Entry]
  BY OAuthAssumption DEF OAuthAssumption, SignInIInv, Shapes
<1>b. t \in 1 .. Len(issued) /\ t \in Nat
  BY <1>a, LenProperties
<1>c. UNCHANGED <<now, issued, enabled, users, signedIn>>
  BY DEF Callback
<1> DEFINE left == AfterConsume(store[v], t, p)
<1>1. left \in SUBSET store[v] /\ store' = [store EXCEPT ![v] = left]
  BY DEF Callback, AfterConsume, Retain
<1>2. /\ store' \in [Providers -> SUBSET Entry] /\ store'[v] = left
      /\ \A w \in Providers \ {v} : store'[w] = store[w]
  BY <1>a, <1>1
<1>3. \A w \in Providers : IsFiniteSet(store'[w]) /\ Cardinality(store'[w]) <= Capacity
  BY <1>1, <1>2, RetainIsSmaller DEF SignInIInv, StoreInv
<1>4. AccountInv' /\ SessionInv'
  BY <1>c DEF SignInIInv, AccountInv, SessionInv, SubjectOwnsAccount
<1>5. CASE MatchingState(store[v], t, p) = {}
  <2>1. passed' = passed /\ cb' = cb
    BY <1>5 DEF Callback
  <2>2. Shapes' /\ PassedInv' /\ CallbackInv'
    BY <1>2, <1>c, <2>1
    DEF SignInIInv, Shapes, PassedInv, StateUsedOnce, CallbackInv, CallbackOk, Connected
  <2>3. StoreInv'
    BY <1>1, <1>2, <1>3, <1>c, <2>1 DEF SignInIInv, StoreInv
  <2> QED BY <1>4, <2>2, <2>3 DEF SignInIInv
<1>6. CASE MatchingState(store[v], t, p) # {}
  <2> DEFINE x == [token |-> t, provider |-> v, project |-> p, at |-> now, by |-> c]
  <2> DEFINE k == [pc |-> "client", provider |-> v, project |-> p, token |-> t]
  <2>1. passed' = passed \union {x} /\ cb' = [cb EXCEPT ![c] = k]
    BY <1>6 DEF Callback
  <2>2. PICK s \in store[v] : s.expires > now /\ s.token = t /\ s.project = p
    BY <1>6 DEF MatchingState, Retain
  <2>3. /\ issued[t].provider = v /\ issued[t].project = p /\ s.expires = issued[t].at + Ttl
        /\ \A y \in passed : y.token # t
    BY <2>2 DEF SignInIInv, StoreInv
  <2>4. now < issued[t].at + Ttl
    BY <2>2, <2>3, <1>a, <1>b DEF Issue
  <2>5. Shapes'
    BY <1>2, <1>b, <1>c, <2>1, <1>a DEF SignInIInv, Shapes, Pass
  <2>6. PassedInv'
    BY <1>b, <1>c, <2>1, <2>3, <2>4 DEF SignInIInv, PassedInv, StateUsedOnce
  <2>7. CallbackInv'
    <3>1. CallbackOk(k)
      BY <1>b DEF CallbackOk, Awaiting
    <3> QED BY <2>1, <3>1, <1>c, CallbackMoves DEF SignInIInv
  <2>8. ASSUME NEW w \in Providers, NEW e \in store'[w] PROVE e.token # t
    <3>1. CASE w # v
      BY <1>2, <2>3, <2>8, <3>1 DEF SignInIInv, StoreInv
    <3>2. CASE w = v
      <4>1. e \in Retain(store[v]) /\ e \notin MatchingState(store[v], t, p) /\ e \in store[v]
        BY <1>2, <2>8, <3>2 DEF AfterConsume, Retain
      <4>2. e.token = t => issued[t].project = e.project
        BY <4>1 DEF SignInIInv, StoreInv
      <4> QED BY <4>1, <4>2, <2>3 DEF MatchingState
    <3> QED BY <3>1, <3>2
  <2>9. StoreInv'
    BY <1>1, <1>2, <1>3, <1>c, <2>1, <2>8 DEF SignInIInv, StoreInv
  <2> QED BY <1>4, <2>5, <2>6, <2>7, <2>9 DEF SignInIInv
<1> QED BY <1>5, <1>6

(* A step of a callback that leaves accounts, states and sessions alone.        *)
LEMMA StepOfOne ==
    ASSUME SignInIInv, NEW c \in Callbacks, NEW k, cb' = [cb EXCEPT ![c] = k], CallbackOk(k),
           UNCHANGED <<now, store, issued, passed, enabled, users, signedIn>>
    PROVE  SignInIInv'
<1>1. CallbackInv'
  BY CallbackMoves DEF SignInIInv
<1>2. Shapes' /\ StoreInv' /\ PassedInv' /\ AccountInv' /\ SessionInv'
  BY DEF SignInIInv, Shapes, StoreInv, PassedInv, StateUsedOnce, AccountInv, SessionInv, SubjectOwnsAccount
<1> QED BY <1>1, <1>2 DEF SignInIInv

(* The provider vouches for an address of the subject.                          *)
LEMMA VouchedShape ==
    ASSUME NEW x \in Vouched
    PROVE  x.subject \in Subjects /\ x.email \in EmailsOf[x.subject] /\ x.email \in Emails
<1>1. PICK s \in Subjects : x \in [subject : {s}, email : EmailsOf[s]]
  BY DEF Vouched
<1> QED BY <1>1, OAuthAssumption DEF OAuthAssumption

(* The steps of a callback before it creates an account or gets a session.      *)
LEMMA LookingPreserves ==
    ASSUME SignInIInv, NEW c \in Callbacks,
           \/ BuildClient(c) \/ ExchangeCode(c) \/ FetchUser(c) \/ FindConnection(c)
           \/ LookUpEmail(c) \/ Fail(c) \/ \E p \in Projects : NativeSignin(c, p)
    PROVE  SignInIInv'
<1>a. CallbackOk(cb[c])
  BY DEF SignInIInv, CallbackInv
<1>b. cb \in [Callbacks -> {cb[d] : d \in Callbacks}]
  BY DEF SignInIInv, CallbackInv
<1>1. CallbackOk(Idle)
  BY DEF CallbackOk
<1>2. CASE BuildClient(c)
  <2>1. cb[c] \in Awaiting
    BY <1>2, <1>a DEF BuildClient, CallbackOk, Idle, Looking, Knowing
  <2>2. CallbackOk([cb[c] EXCEPT !.pc = "exchange"])
    BY <2>1 DEF CallbackOk, Awaiting
  <2> QED BY <1>1, <1>2, <2>2, StepOfOne DEF BuildClient
<1>3. CASE ExchangeCode(c)
  <2>1. cb[c] \in Awaiting
    BY <1>3, <1>a DEF ExchangeCode, CallbackOk, Idle, Looking, Knowing
  <2>2. CallbackOk([cb[c] EXCEPT !.pc = "fetch"])
    BY <2>1 DEF CallbackOk, Awaiting
  <2>3. cb' = [cb EXCEPT ![c] = [cb[c] EXCEPT !.pc = "fetch"]]
    BY <1>3, <1>b DEF ExchangeCode
  <2> QED BY <1>3, <2>2, <2>3, StepOfOne DEF ExchangeCode
<1>4. CASE FetchUser(c)
  <2>1. cb[c] \in Awaiting
    BY <1>4, <1>a DEF FetchUser, CallbackOk, Idle, Looking, Knowing
  <2>2. PICK x \in Vouched :
          cb' = [cb EXCEPT ![c] = Identified(cb[c].provider, cb[c].project, x.subject, x.email, FALSE)]
    BY <1>4 DEF FetchUser
  <2>3. CallbackOk(Identified(cb[c].provider, cb[c].project, x.subject, x.email, FALSE))
    BY <2>1, VouchedShape DEF CallbackOk, Identified, Looking, Awaiting
  <2> QED BY <1>4, <2>2, <2>3, StepOfOne DEF FetchUser
<1>5. CASE FindConnection(c)
  <2>0. cb[c].pc = "find"
    BY <1>5 DEF FindConnection
  <2>1. cb[c] \in Looking /\ cb[c].email \in EmailsOf[cb[c].subject]
    BY <2>0, <1>a DEF CallbackOk, Idle, Awaiting, Knowing
  <2> DEFINE found == Connected(cb[c].provider, cb[c].project, cb[c].subject, cb[c].email)
  <2> DEFINE next == IF cb[c].again THEN "find" ELSE "email"
  <2>2. CASE cb' = [cb EXCEPT ![c].pc = next, ![c].again = FALSE]
    <3>1. cb' = [cb EXCEPT ![c] = [[cb[c] EXCEPT !.pc = next] EXCEPT !.again = FALSE]]
      BY <1>b, <2>2
    <3>2. CallbackOk([[cb[c] EXCEPT !.pc = next] EXCEPT !.again = FALSE])
      BY <2>1 DEF CallbackOk, Looking
    <3> HIDE DEF next
    <3> QED BY <1>5, <3>1, <3>2, StepOfOne DEF FindConnection
  <2>3. CASE \E u \in found : cb' = [cb EXCEPT ![c] = [cb[c] EXCEPT !.pc = "known", !.again = u]]
    <3>1. PICK u \in found : cb' = [cb EXCEPT ![c] = [cb[c] EXCEPT !.pc = "known", !.again = u]]
      BY <2>3
    <3>2. u \in Nat
      BY <3>1, LenProperties DEF Connected, SignInIInv, Shapes
    <3>3. CallbackOk([cb[c] EXCEPT !.pc = "known", !.again = u])
      <4> DEFINE k == [cb[c] EXCEPT !.pc = "known", !.again = u]
      <4>1. k \in Knowing /\ k.provider = cb[c].provider /\ k.project = cb[c].project
            /\ k.subject = cb[c].subject /\ k.email = cb[c].email /\ k.again = u
        BY <2>1, <3>2 DEF Looking, Knowing
      <4> HIDE DEF k
      <4>2. CallbackOk(k)
        BY <3>1, <4>1 DEF CallbackOk
      <4> QED BY <4>2 DEF k
    <3> QED BY <1>5, <3>1, <3>3, StepOfOne DEF FindConnection
  <2>4. CASE cb' = [cb EXCEPT ![c] = Idle]
    BY <1>1, <1>5, <2>4, StepOfOne DEF FindConnection
  <2> QED BY <1>5, <2>2, <2>3, <2>4 DEF FindConnection
<1>6. CASE LookUpEmail(c)
  <2>1. cb[c] \in Looking /\ cb[c].email \in EmailsOf[cb[c].subject]
    BY <1>6, <1>a DEF LookUpEmail, CallbackOk, Idle, Awaiting, Knowing
  <2>2. CallbackOk([cb[c] EXCEPT !.pc = "create"])
    BY <2>1 DEF CallbackOk, Looking
  <2> QED BY <1>1, <1>6, <2>2, StepOfOne DEF LookUpEmail
<1>7. CASE Fail(c)
  BY <1>1, <1>7, StepOfOne DEF Fail
<1>8. CASE \E p \in Projects : NativeSignin(c, p)
  <2>1. PICK p \in Projects, x \in Vouched :
          /\ Configured(Native, p)
          /\ cb' = [cb EXCEPT ![c] = Identified(Native, p, x.subject, x.email, TRUE)]
          /\ UNCHANGED <<now, store, issued, passed, enabled, users, signedIn>>
    BY <1>8 DEF NativeSignin
  <2>2. Native \in Providers
    BY <2>1 DEF Configured, SignInIInv, Shapes
  <2>3. CallbackOk(Identified(Native, p, x.subject, x.email, TRUE))
    BY <2>1, <2>2, VouchedShape DEF CallbackOk, Identified, Looking
  <2> QED BY <2>1, <2>3, StepOfOne
<1> QED BY <1>2, <1>3, <1>4, <1>5, <1>6, <1>7, <1>8

(* A session for the account that was found.                                    *)
LEMMA KnownPreserves == ASSUME SignInIInv, NEW c \in Callbacks, SignInKnown(c) PROVE SignInIInv'
<1>1. cb[c] \in Knowing /\ cb[c].again \in Connected(cb[c].provider, cb[c].project, cb[c].subject, cb[c].email)
  BY DEF SignInIInv, CallbackInv, CallbackOk, SignInKnown, Idle, Awaiting, Looking
<1> DEFINE x == [user |-> cb[c].again, provider |-> cb[c].provider, project |-> cb[c].project,
                 subject |-> cb[c].subject]
<1>2. signedIn' = signedIn \union {x} /\ cb' = [cb EXCEPT ![c] = Idle]
      /\ UNCHANGED <<now, store, issued, passed, enabled, users>>
  BY DEF SignInKnown, SessionFor
<1>3. x \in Session
  BY <1>1 DEF Session, Knowing
<1>4. x.user \in 1 .. Len(users) /\ users[x.user].project = x.project
      /\ <<x.provider, x.subject>> \in users[x.user].connections
  BY <1>1, LenProperties DEF Connected, SignInIInv, Shapes
<1>5. users[x.user].email \in EmailsOf[x.subject]
  BY <1>4 DEF SignInIInv, AccountInv
<1>6. CallbackInv'
  BY <1>2, CallbackMoves DEF SignInIInv, CallbackOk
<1>7. Shapes' /\ StoreInv' /\ PassedInv' /\ AccountInv'
  BY <1>2, <1>3, SMTT(30) DEF SignInIInv, Shapes, StoreInv, PassedInv, StateUsedOnce, AccountInv
<1>8. SessionInv'
  BY <1>2, <1>4, <1>5 DEF SignInIInv, SessionInv, SubjectOwnsAccount
<1> QED BY <1>6, <1>7, <1>8 DEF SignInIInv

(* An account is added, with an address that is free in its project: what is    *)
(* known of the earlier accounts still holds.                                   *)
LEMMA AccountAdded ==
    ASSUME SignInIInv, NEW a \in Account, users' = Append(users, a), ~Taken(a.email, a.project),
           \A w \in a.connections : a.email \in EmailsOf[w[2]],
           UNCHANGED <<now, store, issued, passed, enabled>>
    PROVE  /\ users' \in Seq(Account) /\ Len(users') = Len(users) + 1 /\ Len(users) \in Nat
           /\ users'[Len(users) + 1] = a
           /\ \A u \in 1 .. Len(users) : users'[u] = users[u]
           /\ AccountInv' /\ StoreInv' /\ PassedInv'
           /\ \A k : CallbackOk(k) => CallbackOk(k)'
<1>1. /\ users' \in Seq(Account) /\ Len(users') = Len(users) + 1 /\ Len(users) \in Nat
      /\ users'[Len(users) + 1] = a
      /\ \A u \in 1 .. Len(users) : users'[u] = users[u]
  BY AppendProperties, LenProperties DEF SignInIInv, Shapes
<1>2. DOMAIN users = 1 .. Len(users) /\ DOMAIN users' = 1 .. Len(users')
  BY <1>1, LenProperties DEF SignInIInv, Shapes
<1>3. AccountInv'
  <2>1. ASSUME NEW u \in 1 .. Len(users) PROVE ~(users[u].email = a.email /\ users[u].project = a.project)
    BY <1>2 DEF Taken
  <2>2. ASSUME NEW u \in 1 .. Len(users'), NEW w \in 1 .. Len(users'),
               users'[u].email = users'[w].email /\ users'[u].project = users'[w].project
        PROVE  u = w
    BY <1>1, <2>1, <2>2 DEF SignInIInv, AccountInv
  <2>3. ASSUME NEW u \in 1 .. Len(users'), NEW w \in users'[u].connections PROVE users'[u].email \in EmailsOf[w[2]]
    BY <1>1 DEF SignInIInv, AccountInv
  <2> QED BY <2>2, <2>3 DEF AccountInv
<1>4. StoreInv' /\ PassedInv'
  BY DEF SignInIInv, StoreInv, PassedInv, StateUsedOnce
<1>5. \A k : CallbackOk(k) => CallbackOk(k)'
  BY <1>1, <1>2 DEF CallbackOk, Connected
<1> QED BY <1>1, <1>3, <1>4, <1>5

(* A first sign-in creates the account and its connection, unless the address   *)
(* is taken, and gives a session for it.                                        *)
LEMMA CreatePreserves == ASSUME SignInIInv, NEW c \in Callbacks, CreateAccount(c) PROVE SignInIInv'
<1>0. cb[c].pc = "create" /\ CallbackOk(cb[c])
  BY DEF CreateAccount, SignInIInv, CallbackInv
<1>1. cb[c] \in Looking /\ cb[c].email \in EmailsOf[cb[c].subject]
  BY <1>0 DEF CallbackOk, Idle, Awaiting, Knowing
<1>2. cb' = [cb EXCEPT ![c] = Idle] /\ UNCHANGED <<now, store, issued, passed, enabled>>
  BY DEF CreateAccount
<1>3. CASE Taken(cb[c].email, cb[c].project)
  BY <1>2, <1>3, StepOfOne DEF CreateAccount, UniqueViolated, CallbackOk
<1>4. CASE ~Taken(cb[c].email, cb[c].project)
  <2> DEFINE a == NewAccount(c)
  <2> DEFINE x == [user |-> Len(users) + 1, provider |-> cb[c].provider, project |-> cb[c].project,
                   subject |-> cb[c].subject]
  <2>1. users' = Append(users, a) /\ signedIn' = signedIn \union {x}
    BY <1>4 DEF CreateAccount, UniqueViolated, SessionFor
  <2>2. /\ a \in Account /\ a.email = cb[c].email /\ a.project = cb[c].project
        /\ a.connections = {<<cb[c].provider, cb[c].subject>>}
    BY <1>1 DEF NewAccount, Account, Looking
  <2>3. \A w \in a.connections : a.email \in EmailsOf[w[2]]
    BY <1>1, <2>2
  <2> HIDE DEF a
  <2>4. /\ users' \in Seq(Account) /\ Len(users') = Len(users) + 1 /\ Len(users) \in Nat
        /\ users'[Len(users) + 1] = a
        /\ \A u \in 1 .. Len(users) : users'[u] = users[u]
        /\ AccountInv' /\ StoreInv' /\ PassedInv'
        /\ \A k : CallbackOk(k) => CallbackOk(k)'
    BY <1>2, <1>4, <2>1, <2>2, <2>3, AccountAdded
  <2>5. x \in Session /\ x.user = Len(users) + 1 /\ x.project = cb[c].project
        /\ x.provider = cb[c].provider /\ x.subject = cb[c].subject
    BY <1>1, <2>4 DEF Session, Looking
  <2> HIDE DEF x
  <2>6. Shapes'
    BY <1>2, <2>1, <2>4, <2>5 DEF SignInIInv, Shapes
  <2>7. CallbackInv'
    <3>1. \A d \in Callbacks : cb'[d] = IF d = c THEN Idle ELSE cb[d]
      BY <1>2 DEF SignInIInv, CallbackInv
    <3>2. CallbackOk(Idle)' /\ \A d \in Callbacks : CallbackOk(cb[d])
      BY DEF CallbackOk, SignInIInv, CallbackInv
    <3>3. ASSUME NEW d \in Callbacks PROVE CallbackOk(cb[d])'
      <4>1. CASE d = c
        BY <3>1, <4>1 DEF CallbackOk
      <4>2. CASE d # c
        <5> DEFINE k == cb[d]
        <5>1. CallbackOk(k) /\ cb'[d] = cb[d]
          BY <3>1, <3>2, <4>2
        <5> QED BY <5>1, <2>4 DEF CallbackOk, Connected
      <4> QED BY <4>1, <4>2
    <3>4. DOMAIN cb' = Callbacks /\ cb' = [d \in Callbacks |-> cb'[d]]
      BY <1>2 DEF SignInIInv, CallbackInv
    <3> QED BY <3>3, <3>4 DEF CallbackInv
  <2>8. SessionInv'
    <3>1. ASSUME NEW y \in signedIn'
          PROVE  /\ y.user \in 1 .. Len(users') /\ users'[y.user].project = y.project
                 /\ <<y.provider, y.subject>> \in users'[y.user].connections
                 /\ users'[y.user].email \in EmailsOf[y.subject]
      <4>1. CASE y \in signedIn
        BY <2>4, <4>1 DEF SignInIInv, SessionInv, SubjectOwnsAccount
      <4>2. CASE y = x
        BY <1>1, <2>2, <2>4, <2>5, <4>2
      <4> QED BY <2>1, <3>1, <4>1, <4>2
    <3> QED BY <3>1 DEF SessionInv, SubjectOwnsAccount
  <2> QED BY <2>4, <2>6, <2>7, <2>8 DEF SignInIInv
<1> QED BY <1>3, <1>4

(* A registration adds an account without connections.                          *)
LEMMA RegisterPreserves ==
    ASSUME SignInIInv, NEW e \in Emails, NEW p \in Projects, Register(e, p)
    PROVE  SignInIInv'
<1> DEFINE a == [email |-> e, project |-> p, connections |-> {}]
<1>1. /\ a \in Account /\ a.email = e /\ a.project = p /\ a.connections = {} /\ ~Taken(e, p)
      /\ users' = Append(users, a) /\ UNCHANGED <<now, store, issued, passed, enabled, cb, signedIn>>
  BY DEF Register, Account
<1> HIDE DEF a
<1>2. /\ users' \in Seq(Account) /\ Len(users') = Len(users) + 1 /\ Len(users) \in Nat
      /\ \A u \in 1 .. Len(users) : users'[u] = users[u]
      /\ AccountInv' /\ StoreInv' /\ PassedInv'
      /\ \A k : CallbackOk(k) => CallbackOk(k)'
  BY <1>1, AccountAdded
<1>3. Shapes'
  BY <1>1, <1>2 DEF SignInIInv, Shapes
<1>4. CallbackInv'
  <2>1. ASSUME NEW d \in Callbacks PROVE CallbackOk(cb[d])'
    <3> DEFINE k == cb[d]
    <3>1. CallbackOk(k) /\ cb'[d] = k
      BY <1>1 DEF SignInIInv, CallbackInv
    <3> QED BY <3>1, <1>2 DEF CallbackOk, Connected
  <2> QED BY <1>1, <2>1 DEF SignInIInv, CallbackInv
<1>5. SessionInv'
  BY <1>1, <1>2 DEF SignInIInv, SessionInv, SubjectOwnsAccount
<1> QED BY <1>2, <1>3, <1>4, <1>5 DEF SignInIInv

(* Time passes, or a provider is turned off.                                    *)
LEMMA RestPreserves ==
    ASSUME SignInIInv, Tick \/ (\E v \in Providers, p \in Projects : Disable(v, p)) \/ UNCHANGED vars
    PROVE  SignInIInv'
<1>1. /\ UNCHANGED <<store, issued, passed, users, cb, signedIn>> /\ enabled' \subseteq enabled
      /\ now' \in Nat /\ now <= now' /\ now' <= MaxTime
  <2>1. now \in Nat /\ now <= MaxTime /\ MaxTime \in Nat
    BY OAuthAssumption DEF OAuthAssumption, SignInIInv, Shapes
  <2>2. CASE Tick
    BY <2>1, <2>2 DEF Tick
  <2>3. CASE \E v \in Providers, p \in Projects : Disable(v, p)
    BY <2>1, <2>3 DEF Disable
  <2>4. CASE UNCHANGED vars
    BY <2>1, <2>4 DEF vars
  <2> QED BY <2>2, <2>3, <2>4
<1>2. Shapes'
  BY <1>1 DEF SignInIInv, Shapes
<1>3. StoreInv'
  <2>1. ASSUME NEW t \in 1 .. Len(issued) PROVE issued[t].at \in Nat /\ issued[t].at <= now
    <3>1. issued[t] \in Issue
      BY ElementOfSeq DEF SignInIInv, Shapes
    <3> QED BY <3>1 DEF SignInIInv, StoreInv, Issue
  <2>2. \A t \in 1 .. Len(issued) : issued[t].at <= now'
    BY <1>1, <2>1 DEF SignInIInv, Shapes
  <2> QED BY <1>1, <2>2 DEF SignInIInv, StoreInv
<1>4. PassedInv' /\ AccountInv' /\ CallbackInv' /\ SessionInv'
  BY <1>1
  DEF SignInIInv, PassedInv, StateUsedOnce, AccountInv, CallbackInv, CallbackOk, Connected, SessionInv,
      SubjectOwnsAccount
<1> QED BY <1>2, <1>3, <1>4 DEF SignInIInv

(* The invariant is inductive.                                                  *)
LEMMA SignInStep == ASSUME SignInIInv, [Next]_vars PROVE SignInIInv'
BY InitiatePreserves, CallbackPreserves, LookingPreserves, KnownPreserves, CreatePreserves, RegisterPreserves,
   RestPreserves
DEF Next

(* The invariant contains the property.                                         *)
LEMMA SignInImplies == ASSUME SignInIInv PROVE SignInsAreSeparate
<1>1. TypeOK
  <2>1. now \in 0 .. MaxTime /\ enabled \subseteq Providers \X Projects
    BY OAuthAssumption DEF OAuthAssumption, SignInIInv, Shapes
  <2>2. ASSUME NEW v \in Providers, NEW s \in store[v]
        PROVE  s.token \in DOMAIN issued /\ s.project \in Projects /\ s.expires <= now + Ttl
    <3>1. s \in Entry /\ s.token \in 1 .. Len(issued) /\ s.expires = issued[s.token].at + Ttl
          /\ issued[s.token].at <= now /\ issued \in Seq(Issue) /\ now \in Nat
      BY DEF SignInIInv, Shapes, StoreInv
    <3>2. issued[s.token] \in Issue /\ s.token \in DOMAIN issued
      BY <3>1, ElementOfSeq, LenProperties
    <3> QED BY <3>1, <3>2, OAuthAssumption DEF OAuthAssumption, Entry, Issue
  <2>3. ASSUME NEW u \in DOMAIN users PROVE users[u].email \in Emails /\ users[u].project \in Projects
    <3>1. users[u] \in Account
      BY ElementOfSeq, LenProperties DEF SignInIInv, Shapes
    <3> QED BY <3>1 DEF Account
  <2>4. ASSUME NEW x \in signedIn PROVE x.user \in DOMAIN users
    BY LenProperties DEF SignInIInv, SessionInv, Shapes
  <2> QED BY <2>1, <2>2, <2>3, <2>4 DEF TypeOK
<1>2. StateUsedOnce /\ WithinCapacity /\ SubjectOwnsAccount
  BY DEF SignInIInv, PassedInv, StoreInv, WithinCapacity, SessionInv
<1>3. OneAccountPerSubject
  <2>1. SUFFICES ASSUME NEW x \in signedIn, NEW y \in signedIn,
                        [x EXCEPT !.user = 0] = [y EXCEPT !.user = 0], users[x.user].email = users[y.user].email
                 PROVE  x = y
    BY DEF OneAccountPerSubject
  <2>2. x \in Session /\ y \in Session
    BY DEF SignInIInv, Shapes
  <2>3. x.provider = y.provider /\ x.project = y.project /\ x.subject = y.subject
    BY <2>1, <2>2 DEF Session
  <2>4. x.user = y.user
    <3>1. /\ x.user \in 1 .. Len(users) /\ users[x.user].project = x.project
          /\ y.user \in 1 .. Len(users) /\ users[y.user].project = y.project
      BY DEF SignInIInv, SessionInv, SubjectOwnsAccount
    <3> QED BY <2>1, <2>3, <3>1 DEF SignInIInv, AccountInv
  <2> QED BY <2>2, <2>3, <2>4 DEF Session
<1> QED BY <1>1, <1>2, <1>3 DEF SignInsAreSeparate

(* However callbacks overlap, repeat, come late or altered: a state validates   *)
(* one callback, its own and in time; a store stays within its capacity; a      *)
(* session is for an account of the very subject, of which there is one for an  *)
(* address.                                                                     *)
THEOREM SignInSafety == Spec => []SignInsAreSeparate
BY SignInInit, SignInStep, SignInImplies, PTL DEF Spec

(* Where every subject has one address, a subject of a provider reaches the     *)
(* same account of a project in every session.                                  *)
THEOREM OneAddressSafety ==
    ASSUME \A s \in Subjects : \A d, e \in EmailsOf[s] : d = e
    PROVE  Spec => [](\A x, y \in signedIn : [x EXCEPT !.user = 0] = [y EXCEPT !.user = 0] => x = y)
<1> DEFINE Same == \A x, y \in signedIn : [x EXCEPT !.user = 0] = [y EXCEPT !.user = 0] => x = y
<1>1. ASSUME SignInIInv PROVE Same
  <2>1. SUFFICES ASSUME NEW x \in signedIn, NEW y \in signedIn, [x EXCEPT !.user = 0] = [y EXCEPT !.user = 0]
                 PROVE  x = y
    OBVIOUS
  <2>2. x \in Session /\ y \in Session
    BY <1>1 DEF SignInIInv, Shapes
  <2>3. x.subject = y.subject /\ x.subject \in Subjects
    BY <2>1, <2>2 DEF Session
  <2>4. users[x.user].email = users[y.user].email
    BY <1>1, <2>3 DEF SignInIInv, SessionInv, SubjectOwnsAccount
  <2> QED BY <1>1, <2>1, <2>4, SignInImplies DEF SignInsAreSeparate, OneAccountPerSubject
<1> QED BY SignInInit, SignInStep, <1>1, PTL DEF Spec
-----------------------------------------------------------------------------
(* What a step may do.                                                          *)

(* An entry leaves a store by expiring or in the step in which its token        *)
(* passes.                                                                      *)
LEMMA ConsumedByItsOwn ==
    ASSUME SignInIInv, [Next]_vars, NEW v \in Providers, NEW s \in store[v], s \notin store'[v]
    PROVE  s.expires <= now \/ \E x \in passed' : x.token = s.token
<1>a. store \in [Providers -> SUBSET Entry] /\ s \in Entry /\ now \in Nat
  BY DEF SignInIInv, Shapes
<1>b. s \in Retain(store[v]) \/ s.expires <= now
  BY <1>a DEF Retain, Entry
<1>1. ASSUME NEW w \in Providers, NEW p \in Projects, Initiate(w, p) PROVE s.expires <= now
  <2>1. store' = [store EXCEPT ![w] = StoreAt(@, [token |-> Len(issued) + 1, project |-> p, expires |-> now + Ttl])]
    BY <1>1 DEF Initiate
  <2> QED BY <1>a, <1>b, <2>1 DEF StoreAt
<1>2. ASSUME NEW w \in Providers, NEW p \in Projects, NEW c \in Callbacks, NEW t \in DOMAIN issued,
             Callback(c, w, t, p)
      PROVE  s.expires <= now \/ \E x \in passed' : x.token = s.token
  <2>1. store' = [store EXCEPT ![w] = AfterConsume(@, t, p)]
    BY <1>2 DEF Callback
  <2>2. w = v /\ (s.expires <= now \/ s \in MatchingState(store[v], t, p))
    BY <1>a, <1>b, <2>1 DEF AfterConsume
  <2>3. CASE s \in MatchingState(store[v], t, p)
    <3> DEFINE x == [token |-> t, provider |-> w, project |-> p, at |-> now, by |-> c]
    <3>1. s.token = t /\ passed' = passed \union {x}
      BY <1>2, <2>2, <2>3 DEF Callback, MatchingState
    <3>2. x.token = t
      OBVIOUS
    <3> HIDE DEF x
    <3>3. x \in passed' /\ x.token = s.token
      BY <3>1, <3>2
    <3> QED BY <3>3
  <2> QED BY <2>2, <2>3
<1>3. CASE UNCHANGED store
  BY <1>3
<1> QED
  BY <1>1, <1>2, <1>3
  DEF Next, vars, Tick, Disable, Register, NativeSignin, BuildClient, ExchangeCode, FetchUser, FindConnection,
      SignInKnown, LookUpEmail, CreateAccount, Fail

(* Only a look-up that found one account makes a callback know it.              *)
LEMMA KnownIsUnambiguous ==
    ASSUME SignInIInv, [Next]_vars, NEW c \in Callbacks, cb[c].pc = "find", cb'[c].pc = "known"
    PROVE  Cardinality(Connected(cb[c].provider, cb[c].project, cb[c].subject, cb[c].email)) <= 1
<1>a. cb = [d \in Callbacks |-> cb[d]] /\ cb[c] # Idle
  BY DEF SignInIInv, CallbackInv, Idle
<1>b. cb'[c] # cb[c] /\ cb'[c] # Idle
  BY DEF Idle
<1>1. ASSUME NEW d \in Callbacks, NEW k, cb' = [cb EXCEPT ![d] = k] PROVE d = c /\ cb'[c] = k
  BY <1>1, <1>a, <1>b
<1>2. ASSUME FindConnection(c)
      PROVE  Cardinality(Connected(cb[c].provider, cb[c].project, cb[c].subject, cb[c].email)) <= 1
  <2> DEFINE found == Connected(cb[c].provider, cb[c].project, cb[c].subject, cb[c].email)
  <2> DEFINE next == IF cb[c].again THEN "find" ELSE "email"
  <2>1. cb' # [cb EXCEPT ![c].pc = next, ![c].again = FALSE]
    <3>1. SUFFICES ASSUME cb' = [cb EXCEPT ![c].pc = next, ![c].again = FALSE] PROVE FALSE
      OBVIOUS
    <3>2. cb'[c] = [cb[c] EXCEPT !.pc = next, !.again = FALSE]
      BY <1>a, <3>1
    <3>3. cb[c] \in Looking
      BY DEF SignInIInv, CallbackInv, CallbackOk, Idle, Awaiting, Knowing
    <3>4. cb'[c].pc = next
      BY <3>2, <3>3 DEF Looking
    <3> QED BY <3>4
  <2>2. Unambiguous(found)
    BY <1>1, <1>2, <1>b, <2>1 DEF FindConnection
  <2> QED BY <2>2 DEF Unambiguous
<1>3. \A d \in Callbacks : ~(BuildClient(d) \/ FetchUser(d) \/ SignInKnown(d) \/ LookUpEmail(d) \/ CreateAccount(d) \/ Fail(d))
  <2>1. \A d \in Callbacks : ~(SignInKnown(d) \/ CreateAccount(d) \/ Fail(d))
    BY <1>1, <1>b DEF SignInKnown, CreateAccount, Fail
  <2>2. \A d \in Callbacks : ~(BuildClient(d) \/ LookUpEmail(d))
    BY <1>1 DEF BuildClient, LookUpEmail
  <2>3. \A d \in Callbacks : ~FetchUser(d)
    BY <1>1 DEF FetchUser
  <2> QED BY <2>1, <2>2, <2>3
<1>4. \A d \in Callbacks : ~ExchangeCode(d)
  BY <1>a, <1>b DEF ExchangeCode
<1>5. \A d \in Callbacks, p \in Projects : ~NativeSignin(d, p)
  BY <1>1, <1>a DEF NativeSignin
<1>6. \A d \in Callbacks, v \in Providers, p \in Projects, t \in DOMAIN issued : ~Callback(d, v, t, p)
  <2>1. SUFFICES ASSUME NEW d \in Callbacks, NEW v \in Providers, NEW p \in Projects, NEW t \in DOMAIN issued,
                        Callback(d, v, t, p)
                 PROVE  FALSE
    OBVIOUS
  <2>2. cb[d] = Idle /\ (cb' = cb \/ \E k : cb' = [cb EXCEPT ![d] = k])
    BY <2>1 DEF Callback
  <2> QED BY <1>1, <1>a, <1>b, <2>2
<1>7. ASSUME NEW d \in Callbacks, FindConnection(d) PROVE d = c
  <2>1. CASE d # c
    <3>1. cb'[c] = cb[c]
      BY <1>7, <1>a, <2>1 DEF FindConnection
    <3> QED BY <3>1, <1>b
  <2> QED BY <2>1
<1>8. ~(UNCHANGED cb)
  BY <1>b
<1> QED BY <1>2, <1>3, <1>4, <1>5, <1>6, <1>7, <1>8 DEF Next, vars, Tick, Initiate, Disable, Register

(* A state under way is consumed only by its own callback, and a subject with   *)
(* two accounts is signed in to neither.                                        *)
THEOREM CallbackSafety == Spec => CallbacksKeepToTheirOwn
<1> DEFINE Own == \A v \in Providers : \A s \in store[v] :
                    s \notin store'[v] => s.expires <= now \/ \E x \in passed' : x.token = s.token
<1> DEFINE One == \A c \in Callbacks :
                    cb[c].pc = "find" /\ cb'[c].pc = "known" =>
                        Cardinality(Connected(cb[c].provider, cb[c].project, cb[c].subject, cb[c].email)) <= 1
<1>1. ASSUME SignInIInv, [Next]_vars PROVE [Own]_vars /\ [One]_vars
  BY <1>1, ConsumedByItsOwn, KnownIsUnambiguous
<1> QED
  BY SignInInit, SignInStep, <1>1, PTL
  DEF Spec, CallbacksKeepToTheirOwn, OnlyItsCallbackConsumes, AmbiguousIsRefused
-----------------------------------------------------------------------------
(*****************************************************************************)
(* Apple's keys.  A key stays in the cache for an hour after it was written, *)
(* and it was published when the sign-in that wrote it had begun: so the     *)
(* withdrawal is not far before the writing (CacheInv), nor before the start *)
(* of a sign-in that uses it (RequestInv).                                   *)
(*****************************************************************************)

Verifying == [pc : {"decode", "fetch", "install", "decide"}, kid : Kids, exp : Nat, began : Nat,
              signer : BOOLEAN, raced : BOOLEAN, snap : SUBSET Kids]

AppleShapes ==
    /\ clock \in Nat /\ clock <= LastTime
    /\ published \subseteq Kids /\ withdrawn \in [Kids -> Nat]
    /\ cache \in [keys : SUBSET Kids, updated : Int] /\ cache.updated <= clock
    /\ req = [r \in Callbacks |-> req[r]]

\* A key is withdrawn once, and not published again.
WithdrawnInv ==
    \A k \in Kids : IF k \in published THEN withdrawn[k] = LastTime + 1
                    ELSE withdrawn[k] <= clock \/ withdrawn[k] = LastTime + 1

CacheInv == \A k \in cache.keys : cache.updated <= withdrawn[k] + Latency

\* What a sign-in in flight carries.
RequestOk(q) ==
    /\ q \in Verifying /\ q.began <= clock /\ clock <= q.began + Latency
    /\ q.signer => q.kid \in published \/ withdrawn[q.kid] <= LastTime
    /\ q.pc = "install" => /\ \A k \in q.snap : q.began <= withdrawn[k]
                           /\ q.signer /\ q.kid \in published => q.kid \in q.snap
    /\ q.pc = "decide" => /\ q.began <= cache.updated
                          /\ q.signer /\ q.kid \in published /\ ~q.raced => q.kid \in cache.keys
    /\ q.pc = "decode" => q.began <= withdrawn[q.kid] + Latency + Fresh

RequestInv == \A r \in Callbacks : Apple!InFlight(r) => RequestOk(req[r])

AppleIInv == AppleShapes /\ WithdrawnInv /\ CacheInv /\ RequestInv

(* The hour, the leeway and the bounds are numbers.                             *)
LEMMA AppleBounds == Fresh \in Nat /\ Leeway \in Nat /\ Latency \in Nat /\ LastTime \in Nat
BY SignInAssumption DEF SignInAssumption, Apple!AppleAssumption

(* An empty cache, older than an hour, and nobody signing in.                   *)
LEMMA AppleInit == ASSUME Apple!Init PROVE AppleIInv
<1>1. AppleShapes
  BY AppleBounds DEF Apple!Init, AppleShapes
<1>2. WithdrawnInv /\ CacheInv /\ RequestInv
  BY AppleBounds DEF Apple!Init, WithdrawnInv, CacheInv, RequestInv, Apple!InFlight
<1> QED BY <1>1, <1>2 DEF AppleIInv

(* Apple publishes and withdraws keys.                                          *)
LEMMA ApplePreserves ==
    ASSUME AppleIInv, NEW k \in Kids, Apple!Publish(k) \/ Apple!Withdraw(k)
    PROVE  AppleIInv'
<1>a. clock \in Nat /\ clock <= LastTime /\ LastTime \in Nat /\ withdrawn \in [Kids -> Nat]
      /\ published \subseteq Kids /\ cache \in [keys : SUBSET Kids, updated : Int] /\ cache.updated <= clock
  BY AppleBounds DEF AppleIInv, AppleShapes
<1>1. /\ UNCHANGED <<clock, cache, req>> /\ published' \subseteq Kids /\ withdrawn' \in [Kids -> Nat]
      /\ \A j \in Kids : withdrawn'[j] = withdrawn[j] \/ withdrawn'[j] = clock
  BY <1>a DEF Apple!Publish, Apple!Withdraw
<1>2. AppleShapes'
  BY <1>1 DEF AppleIInv, AppleShapes
<1>3. WithdrawnInv'
  BY <1>a DEF AppleIInv, WithdrawnInv, Apple!Publish, Apple!Withdraw
<1>4. CacheInv'
  BY <1>a, <1>1, AppleBounds DEF AppleIInv, CacheInv
<1>5. ASSUME NEW j \in Kids, j \in published \/ withdrawn[j] <= LastTime
      PROVE  /\ j \in published' \/ withdrawn'[j] <= LastTime
             /\ j \in published' => j \in published
  BY <1>a, <1>5 DEF Apple!Publish, Apple!Withdraw
<1>6. RequestInv'
  <2>1. SUFFICES ASSUME NEW r \in Callbacks, Apple!InFlight(r)' PROVE RequestOk(req[r])'
    BY DEF RequestInv
  <2> DEFINE q == req[r]
  <2>2. req'[r] = q /\ RequestOk(q)
    BY <1>1, <2>1 DEF AppleIInv, RequestInv, Apple!InFlight, Apple!Idle, Apple!Ok, Apple!Missing
  <2>3. q \in Verifying /\ q.kid \in Kids /\ q.snap \subseteq Kids /\ q.began \in Nat
    BY <2>2 DEF RequestOk, Verifying
  <2>4. q.pc = "install" => \A j \in q.snap : q.began <= withdrawn'[j]
    BY <1>1, <2>2, <2>3 DEF RequestOk
  <2>5. q.pc = "decode" => q.began <= withdrawn'[q.kid] + Latency + Fresh
    BY <1>a, <1>1, <2>2, <2>3, AppleBounds DEF RequestOk
  <2> HIDE DEF q
  <2> QED BY <1>1, <1>5, <2>2, <2>3, <2>4, <2>5 DEF RequestOk
<1> QED BY <1>2, <1>3, <1>4, <1>6 DEF AppleIInv

(* Time passes, for as long as no sign-in takes longer than Latency.            *)
LEMMA AppleTickPreserves == ASSUME AppleIInv, Apple!Tick PROVE AppleIInv'
<1>a. clock \in Nat /\ clock < LastTime /\ LastTime \in Nat /\ clock' = clock + 1
      /\ UNCHANGED <<published, withdrawn, cache, req>> /\ withdrawn \in [Kids -> Nat]
      /\ cache \in [keys : SUBSET Kids, updated : Int] /\ cache.updated <= clock
  BY AppleBounds DEF AppleIInv, AppleShapes, Apple!Tick
<1>1. AppleShapes' /\ WithdrawnInv' /\ CacheInv'
  BY <1>a DEF AppleIInv, AppleShapes, WithdrawnInv, CacheInv
<1>2. RequestInv'
  <2>1. SUFFICES ASSUME NEW r \in Callbacks, Apple!InFlight(r)' PROVE RequestOk(req[r])'
    BY DEF RequestInv
  <2> DEFINE q == req[r]
  <2>2. req'[r] = q /\ RequestOk(q) /\ clock < q.began + Latency
    BY <1>a, <2>1 DEF AppleIInv, RequestInv, Apple!InFlight, Apple!Idle, Apple!Ok, Apple!Missing, Apple!Tick
  <2>3. q.began \in Nat
    BY <2>2 DEF RequestOk, Verifying
  <2> HIDE DEF q
  <2> QED BY <1>a, <2>2, <2>3, AppleBounds DEF RequestOk
<1> QED BY <1>1, <1>2 DEF AppleIInv

(* A step of one sign-in that leaves the cache alone.                           *)
LEMMA VerifierMoves ==
    ASSUME AppleIInv, NEW r \in Callbacks, NEW q, req' = [req EXCEPT ![r] = q],
           q \in {Apple!Idle, Apple!Ok, Apple!Missing} \/ RequestOk(q),
           UNCHANGED <<clock, published, withdrawn, cache>>
    PROVE  AppleIInv'
<1>1. req' = [p \in Callbacks |-> IF p = r THEN q ELSE req[p]]
  BY DEF AppleIInv, AppleShapes
<1>2. AppleShapes' /\ WithdrawnInv' /\ CacheInv'
  BY <1>1 DEF AppleIInv, AppleShapes, WithdrawnInv, CacheInv
<1>3. ASSUME NEW p \in Callbacks, Apple!InFlight(p)' PROVE RequestOk(req[p])'
  <2>1. req'[p] = IF p = r THEN q ELSE req[p]
    BY <1>1
  <2>2. RequestOk(req'[p])
    BY <1>3, <2>1
    DEF AppleIInv, RequestInv, Apple!InFlight, Apple!Idle, Apple!Ok, Apple!Missing
  <2> QED BY <2>2 DEF RequestOk
<1> QED BY <1>2, <1>3 DEF AppleIInv, RequestInv

(* A sign-in looks, asks Apple, decides and decodes.                            *)
LEMMA VerifierPreserves ==
    ASSUME AppleIInv, NEW r \in Callbacks,
           \/ \E k \in Kids, e \in 0 .. LastTime : Apple!Start(r, k, e)
           \/ Apple!Fetch(r) \/ Apple!Decide(r) \/ Apple!Decode(r)
    PROVE  AppleIInv'
<1>a. /\ clock \in Nat /\ clock <= LastTime /\ published \subseteq Kids /\ withdrawn \in [Kids -> Nat]
      /\ cache \in [keys : SUBSET Kids, updated : Int] /\ cache.updated <= clock
      /\ cache.keys \subseteq Kids /\ cache.updated \in Int
      /\ Fresh \in Nat /\ Latency \in Nat /\ LastTime \in Nat
  BY AppleBounds DEF AppleIInv, AppleShapes
<1>b. ASSUME req[r].pc \in {"fetch", "decide", "decode"} PROVE RequestOk(req[r])
  BY <1>b DEF AppleIInv, RequestInv, Apple!InFlight, Apple!Idle, Apple!Ok, Apple!Missing
<1>1. ASSUME NEW k \in Kids, NEW e \in 0 .. LastTime, Apple!Start(r, k, e) PROVE AppleIInv'
  <2> DEFINE q == [pc |-> Apple!AfterLook(k), kid |-> k, exp |-> e, began |-> clock,
                   signer |-> k \in published, raced |-> FALSE, snap |-> {}]
  <2>1. req' = [req EXCEPT ![r] = q] /\ UNCHANGED <<clock, published, withdrawn, cache>>
    BY <1>1 DEF Apple!Start
  <2>2. Apple!AfterLook(k) \in {"decode", "fetch"}
    BY DEF Apple!AfterLook
  <2>3. Apple!AfterLook(k) = "decode" => clock <= withdrawn[k] + Latency + Fresh
    <3>1. SUFFICES ASSUME Apple!AfterLook(k) = "decode" PROVE clock <= withdrawn[k] + Latency + Fresh
      OBVIOUS
    <3>2. k \in cache.keys /\ clock - cache.updated <= Fresh
      BY <3>1 DEF Apple!AfterLook, Apple!Usable
    <3>3. cache.updated <= withdrawn[k] + Latency
      BY <3>2 DEF AppleIInv, CacheInv
    <3>4. withdrawn[k] \in Nat
      BY <1>a
    <3> QED BY <1>a, <3>2, <3>3, <3>4
  <2>4. /\ q.pc = Apple!AfterLook(k) /\ q.kid = k /\ q.began = clock /\ q \in Verifying
        /\ (q.signer => k \in published)
    <3>1. (k \in published) \in BOOLEAN
      OBVIOUS
    <3>2. q \in Verifying
      BY <1>a, <2>2, <3>1 DEF Verifying
    <3> QED BY <3>2
  <2> HIDE DEF q
  <2>5. RequestOk(q)
    <3>1. q.pc # "install" /\ q.pc # "decide" /\ clock <= q.began + Latency
      BY <1>a, <2>2, <2>4
    <3> QED BY <1>a, <2>3, <2>4, <3>1 DEF RequestOk
  <2> QED BY <2>1, <2>5, VerifierMoves
<1>2. CASE Apple!Fetch(r)
  <2>1. CASE req' = [req EXCEPT ![r] = Apple!Idle]
    BY <1>2, <2>1, VerifierMoves DEF Apple!Fetch
  <2>2. CASE req' = [req EXCEPT ![r].pc = "install", ![r].snap = published]
    <3> DEFINE q == [req[r] EXCEPT !.pc = "install", !.snap = published]
    <3>1. RequestOk(req[r])
      BY <1>2, <1>b DEF Apple!Fetch
    <3>2. req' = [req EXCEPT ![r] = q]
      BY <2>2 DEF AppleIInv, AppleShapes
    <3>3. /\ q \in Verifying /\ q.pc = "install" /\ q.snap = published /\ q.began = req[r].began
          /\ q.signer = req[r].signer /\ q.kid = req[r].kid /\ q.began \in Nat
      BY <1>a, <3>1 DEF RequestOk, Verifying
    <3> HIDE DEF q
    <3>4. \A k \in q.snap : q.began <= withdrawn[k]
      BY <1>a, <3>1, <3>3 DEF RequestOk, AppleIInv, WithdrawnInv
    <3>5. RequestOk(q)
      BY <3>1, <3>3, <3>4 DEF RequestOk
    <3> QED BY <1>2, <3>2, <3>5, VerifierMoves DEF Apple!Fetch
  <2> QED BY <1>2, <2>1, <2>2 DEF Apple!Fetch
<1>3. CASE Apple!Decide(r)
  <2> DEFINE q == [req[r] EXCEPT !.pc = "decode"]
  <2>1. RequestOk(req[r]) /\ req[r].pc = "decide"
    BY <1>3, <1>b DEF Apple!Decide
  <2>2. CASE req[r].kid \in cache.keys
    <3>1. req' = [req EXCEPT ![r] = q]
      BY <1>3, <2>2 DEF Apple!Decide
    <3>2. /\ q \in Verifying /\ q.pc = "decode" /\ q.began = req[r].began /\ q.began \in Nat
          /\ q.signer = req[r].signer /\ q.kid = req[r].kid
      BY <2>1 DEF RequestOk, Verifying
    <3> HIDE DEF q
    <3>3. q.began <= cache.updated /\ cache.updated <= withdrawn[q.kid] + Latency /\ withdrawn[q.kid] \in Nat
      BY <1>a, <2>1, <2>2, <3>2 DEF RequestOk, AppleIInv, CacheInv
    <3>4. q.began <= withdrawn[q.kid] + Latency + Fresh
      BY <1>a, <3>2, <3>3
    <3>5. RequestOk(q)
      BY <2>1, <3>2, <3>4 DEF RequestOk
    <3> QED BY <1>3, <3>1, <3>5, VerifierMoves DEF Apple!Decide
  <2>3. CASE req[r].kid \notin cache.keys
    BY <1>3, <2>3, VerifierMoves DEF Apple!Decide
  <2> QED BY <2>2, <2>3
<1>4. CASE Apple!Decode(r)
  BY <1>4, VerifierMoves DEF Apple!Decode
<1> QED BY <1>1, <1>2, <1>3, <1>4

(* The answer is written into the cache; the other sign-ins in flight have a    *)
(* newer cache than they knew.                                                  *)
LEMMA InstallPreserves == ASSUME AppleIInv, NEW r \in Callbacks, Apple!Install(r) PROVE AppleIInv'
<1>a. /\ clock \in Nat /\ clock <= LastTime /\ published \subseteq Kids /\ withdrawn \in [Kids -> Nat]
      /\ cache.updated <= clock /\ cache.updated \in Int
      /\ Fresh \in Nat /\ Latency \in Nat /\ LastTime \in Nat
  BY AppleBounds DEF AppleIInv, AppleShapes
<1> DEFINE snap == req[r].snap
<1>1. RequestOk(req[r]) /\ req[r].pc = "install"
  BY DEF Apple!Install, AppleIInv, RequestInv, Apple!InFlight, Apple!Idle, Apple!Ok, Apple!Missing
<1>2. snap \subseteq Kids /\ req[r].began \in Nat /\ req[r].kid \in Kids
  BY <1>1 DEF RequestOk, Verifying
<1>3. cache' = [keys |-> snap, updated |-> clock] /\ UNCHANGED <<clock, published, withdrawn>>
  BY DEF Apple!Install, Apple!Replaced
<1>4. cache'.keys = snap /\ cache'.updated = clock /\ cache' \in [keys : SUBSET Kids, updated : Int]
  BY <1>a, <1>2, <1>3
<1>5. req' = [p \in Callbacks |-> IF p = r THEN [req[r] EXCEPT !.pc = "decide"]
                                  ELSE IF Apple!InFlight(p) THEN [req[p] EXCEPT !.raced = TRUE] ELSE req[p]]
  BY DEF Apple!Install, Apple!Race
<1> HIDE DEF snap
<1>6. AppleShapes'
  BY <1>a, <1>3, <1>4, <1>5 DEF AppleIInv, AppleShapes
<1>7. WithdrawnInv'
  BY <1>3 DEF AppleIInv, WithdrawnInv
<1>8. CacheInv'
  <2>1. \A k \in snap : withdrawn[k] \in Nat /\ req[r].began <= withdrawn[k]
    BY <1>a, <1>1, <1>2 DEF RequestOk, snap
  <2>2. \A k \in snap : clock <= withdrawn[k] + Latency
    BY <1>a, <1>1, <1>2, <2>1 DEF RequestOk
  <2> QED BY <1>3, <1>4, <2>2 DEF CacheInv
<1>9. ASSUME NEW p \in Callbacks, Apple!InFlight(p)' PROVE RequestOk(req[p])'
  <2>1. CASE p = r
    <3> DEFINE q == [req[r] EXCEPT !.pc = "decide"]
    <3>1. req'[p] = q
      BY <1>5, <2>1
    <3>2. /\ q \in Verifying /\ q.pc = "decide" /\ q.began = req[r].began /\ q.kid = req[r].kid
          /\ q.signer = req[r].signer /\ q.began \in Nat
      BY <1>1 DEF RequestOk, Verifying
    <3> HIDE DEF q
    <3>3. q.signer /\ q.kid \in published => q.kid \in cache'.keys
      BY <1>1, <1>4, <3>2 DEF RequestOk, snap
    <3> QED BY <1>1, <1>3, <1>4, <3>1, <3>2, <3>3 DEF RequestOk
  <2>2. CASE p # r
    <3>1. Apple!InFlight(p) /\ RequestOk(req[p])
      BY <1>5, <1>9, <2>2 DEF Apple!InFlight, Apple!Idle, Apple!Ok, Apple!Missing, AppleIInv, RequestInv
    <3> DEFINE q == [req[p] EXCEPT !.raced = TRUE]
    <3>2. req'[p] = q
      BY <1>5, <2>2, <3>1
    <3>3. /\ q \in Verifying /\ q.pc = req[p].pc /\ q.began = req[p].began /\ q.kid = req[p].kid
          /\ q.signer = req[p].signer /\ q.snap = req[p].snap /\ q.raced /\ q.began \in Nat
      BY <3>1 DEF RequestOk, Verifying
    <3> HIDE DEF q
    <3> QED BY <1>a, <1>3, <1>4, <3>1, <3>2, <3>3 DEF RequestOk
  <2> QED BY <2>1, <2>2
<1> QED BY <1>6, <1>7, <1>8, <1>9 DEF AppleIInv, RequestInv

(* The invariant is inductive.                                                  *)
LEMMA AppleStep == ASSUME AppleIInv, [Apple!Next]_(Apple!vars) PROVE AppleIInv'
<1>1. CASE Apple!Next
  BY <1>1, ApplePreserves, AppleTickPreserves, VerifierPreserves, InstallPreserves DEF Apple!Next
<1>2. CASE UNCHANGED Apple!vars
  BY <1>2
  DEF Apple!vars, AppleIInv, AppleShapes, WithdrawnInv, CacheInv, RequestInv, RequestOk, Apple!InFlight
<1> QED BY <1>1, <1>2

(* A sign-in in flight comes to its verdict only in its own step.               *)
LEMMA VerdictStep ==
    ASSUME AppleIInv, Apple!Next, NEW r \in Callbacks, Apple!InFlight(r), req'[r] \in {Apple!Ok, Apple!Missing}
    PROVE  /\ RequestOk(req[r])
           /\ req'[r] = Apple!Ok => req[r].pc = "decode" /\ Apple!Unexpired(r)
           /\ req'[r] = Apple!Missing => req[r].pc = "decide" /\ req[r].kid \notin cache.keys
<1>a. RequestOk(req[r]) /\ req[r] \in Verifying /\ req = [p \in Callbacks |-> req[p]]
  BY DEF AppleIInv, RequestInv, RequestOk, AppleShapes
<1>b. req'[r] # req[r] /\ req'[r] # Apple!Idle
  BY <1>a DEF Apple!Ok, Apple!Missing, Apple!Idle, Verifying
<1>c. ASSUME NEW q, q.pc \in {"decode", "fetch", "install", "decide"} PROVE req'[r] # q
  BY <1>c DEF Apple!Ok, Apple!Missing
<1>1. ASSUME NEW k \in Kids, Apple!Publish(k) \/ Apple!Withdraw(k) PROVE FALSE
  BY <1>1, <1>b DEF Apple!Publish, Apple!Withdraw
<1>2. ASSUME Apple!Tick PROVE FALSE
  BY <1>2, <1>b DEF Apple!Tick
<1>3. ASSUME NEW p \in Callbacks, NEW q, req' = [req EXCEPT ![p] = q] PROVE p = r /\ req'[r] = q
  BY <1>3, <1>a, <1>b
<1>4. ASSUME NEW p \in Callbacks, NEW k \in Kids, NEW e, Apple!Start(p, k, e) PROVE FALSE
  BY <1>3, <1>4 DEF Apple!Start
<1>5. ASSUME NEW p \in Callbacks, Apple!Fetch(p) PROVE FALSE
  <2>1. req' = [req EXCEPT ![p].pc = "install", ![p].snap = published]
    BY <1>3, <1>5, <1>b DEF Apple!Fetch
  <2>2. p = r
    BY <1>a, <1>b, <2>1
  <2>3. req'[r] = [req[r] EXCEPT !.pc = "install", !.snap = published]
    BY <1>a, <2>1, <2>2
  <2>4. req'[r].pc = "install"
    BY <1>a, <2>3 DEF Verifying
  <2> QED BY <2>4 DEF Apple!Ok, Apple!Missing
<1>6. ASSUME NEW p \in Callbacks, Apple!Install(p) PROVE FALSE
  <2>1. req' = [i \in Callbacks |-> IF i = p THEN [req[p] EXCEPT !.pc = "decide"]
                                    ELSE IF Apple!InFlight(i) THEN [req[i] EXCEPT !.raced = TRUE] ELSE req[i]]
    BY <1>6 DEF Apple!Install, Apple!Race
  <2>2. req'[r] = [req[r] EXCEPT !.pc = "decide"] \/ req'[r] = [req[r] EXCEPT !.raced = TRUE]
    BY <2>1
  <2>3. req'[r].pc \in {"decode", "fetch", "install", "decide"}
    BY <1>a, <2>2 DEF Verifying
  <2> QED BY <2>3 DEF Apple!Ok, Apple!Missing
<1>7. ASSUME NEW p \in Callbacks, Apple!Decide(p)
      PROVE  req'[r] = Apple!Missing /\ req[r].pc = "decide" /\ req[r].kid \notin cache.keys
  <2>1. p = r
    BY <1>3, <1>7 DEF Apple!Decide
  <2>2. req'[r] = IF req[r].kid \in cache.keys THEN [req[r] EXCEPT !.pc = "decode"] ELSE Apple!Missing
    BY <1>3, <1>7, <2>1 DEF Apple!Decide
  <2>3. [req[r] EXCEPT !.pc = "decode"].pc = "decode"
    BY <1>a DEF Verifying
  <2> QED BY <1>7, <2>1, <2>2, <2>3 DEF Apple!Decide, Apple!Ok, Apple!Missing
<1>8. ASSUME NEW p \in Callbacks, Apple!Decode(p)
      PROVE  req'[r] = Apple!Ok /\ req[r].pc = "decode" /\ Apple!Unexpired(r)
  BY <1>3, <1>8, <1>b DEF Apple!Decode
<1>9. Apple!Ok # Apple!Missing
  BY DEF Apple!Ok, Apple!Missing
<1> QED BY <1>a, <1>1, <1>2, <1>4, <1>5, <1>6, <1>7, <1>8, <1>9 DEF Apple!Next

(* A withdrawn key is honoured for the cache's hour and the time of an answer   *)
(* under way, an expired token is refused, and a published key is found unless  *)
(* an older answer was written last.                                            *)
THEOREM AppleKeySafety == Apple!Spec => AppleKeysAreCurrent
<1> DEFINE Expires == \A r \in Callbacks :
                        Apple!Accepts(r) => clock <= withdrawn[req[r].kid] + 2 * Latency + Fresh
<1> DEFINE Refused == \A r \in Callbacks : Apple!Accepts(r) => clock <= req[r].exp + Leeway
<1> DEFINE Found == \A r \in Callbacks :
                      Apple!InFlight(r) /\ req'[r] = Apple!Missing /\ req[r].signer /\ req[r].kid \in published
                        => req[r].raced
<1>1. ASSUME AppleIInv, Apple!Next PROVE Expires
  <2>1. SUFFICES ASSUME NEW r \in Callbacks, Apple!Accepts(r)
                 PROVE  clock <= withdrawn[req[r].kid] + 2 * Latency + Fresh
    OBVIOUS
  <2>2. RequestOk(req[r]) /\ req[r].pc = "decode"
    BY <1>1, <2>1, VerdictStep DEF Apple!Accepts
  <2>3. /\ req[r].began \in Nat /\ withdrawn[req[r].kid] \in Nat /\ clock \in Nat
        /\ clock <= req[r].began + Latency /\ req[r].began <= withdrawn[req[r].kid] + Latency + Fresh
    BY <1>1, <2>2 DEF RequestOk, Verifying, AppleIInv, AppleShapes
  <2> QED BY <2>3, AppleBounds
<1>2. ASSUME AppleIInv, Apple!Next PROVE Refused
  BY <1>2, VerdictStep DEF Apple!Accepts, Apple!Unexpired
<1>3. ASSUME AppleIInv, Apple!Next PROVE Found
  BY <1>3, VerdictStep DEF RequestOk
<1>4. ASSUME AppleIInv, [Apple!Next]_(Apple!vars)
      PROVE  [Expires]_(Apple!vars) /\ [Refused]_(Apple!vars) /\ [Found]_(Apple!vars)
  BY <1>1, <1>2, <1>3, <1>4
<1> QED
  BY AppleInit, AppleStep, <1>4, PTL
  DEF Apple!Spec, AppleKeysAreCurrent, Apple!WithdrawnKeyExpires, Apple!ExpiredIsRefused, Apple!PublishedIsFound
=============================================================================
