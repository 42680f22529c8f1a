------------------------ MODULE BillingSessionProofs ------------------------
(* Theorems about BillingSession, for every value of its constants. *)
EXTENDS BillingSession, TLAPS

(* What a step must leave alone for a request it does not belong to. *)
Untouched(q) ==
    /\ pc'[q] = pc[q] /\ refundPc'[q] = refundPc[q] /\ req'[q] = req[q]
    /\ ses'[q] = ses[q] /\ record'[q] = record[q] /\ paid'[q] = paid[q]
    /\ failed'[q] = failed[q]

(* A step that changes the state of request r and of no other. *)
OnlyAt(r) ==
    /\ pc' = [pc EXCEPT ![r] = pc'[r]]
    /\ refundPc' = [refundPc EXCEPT ![r] = refundPc'[r]]
    /\ req' = [req EXCEPT ![r] = req'[r]]
    /\ ses' = [ses EXCEPT ![r] = ses'[r]]
    /\ record' = [record EXCEPT ![r] = record'[r]]
    /\ paid' = [paid EXCEPT ![r] = paid'[r]]
    /\ fee' = [fee EXCEPT ![r] = fee'[r]]
    /\ failed' = [failed EXCEPT ![r] = failed'[r]]

(* TypeOK as far as request r and the three columns are concerned. *)
LocalType(r) ==
    /\ pc[r] \in RequestLabels
    /\ refundPc[r] \in RefundLabels
    /\ req[r] \in RequestRecord
    /\ ses[r] \in Session
    /\ record[r] \in {"none", "consumed", "refunded"}
    /\ paid[r] \in Charge
    /\ fee[r] \in Nat
    /\ failed[r] \in BOOLEAN
    /\ userQuota \in Int
    /\ tokenRemain \in Int
    /\ subUsed \in Nat

(* A request nobody touched keeps its part of the invariant. *)
LEMMA FrameLemma ==
    ASSUME NEW q \in Requests, SessionInv(q), Untouched(q)
    PROVE  SessionInv(q)'
  <1>1. /\ Held(q)' = Held(q) /\ HeldElsewhere(q)' = HeldElsewhere(q)
        /\ Owed(q)' = Owed(q) /\ (Playground(q)' <=> Playground(q))
        /\ (BySubscription(q)' <=> BySubscription(q))
    BY DEF Untouched, Held, HeldElsewhere, Owed, Playground, BySubscription
  <1>2. UnfundedInv(q)'
    BY <1>1 DEF Untouched, SessionInv, UnfundedInv, TokenCovers, Covers
  <1>3. OpenInv(q)'
    BY <1>1 DEF Untouched, SessionInv, OpenInv, TokenCovers, Covers
  <1>4. SettledInv(q)'
    BY <1>1 DEF Untouched, SessionInv, SettledInv
  <1>5. RefundInv(q)'
    BY <1>1 DEF Untouched, SessionInv, RefundInv, TokenCovers, Covers, HeldUnlessUnmarked
  <1>6. LedgerInv(q)'
    BY <1>1 DEF Untouched, SessionInv, LedgerInv, HeldUnlessUnmarked, UnmarkedInv
  <1> QED BY <1>2, <1>3, <1>4, <1>5, <1>6 DEF SessionInv

(* A step of request r preserves types and invariant when it touches no    *)
(* other request and keeps r's own part.                                   *)
LEMMA StepLemma ==
    ASSUME NEW r \in Requests, TypeOK, BillingInv,
           OnlyAt(r), LocalType(r)', SessionInv(r)'
    PROVE  TypeOK' /\ BillingInv'
  <1>1. TypeOK'
    BY DEF TypeOK, OnlyAt, LocalType
  <1>2. ASSUME NEW q \in Requests \ {r} PROVE Untouched(q)
    BY DEF TypeOK, OnlyAt, Untouched
  <1>3. BillingInv'
    BY <1>2, FrameLemma DEF BillingInv
  <1> QED BY <1>1, <1>3

(* The types of the fields the invariant talks about. *)
FieldsTyped(r) ==
    /\ ses[r].effective \in Nat /\ ses[r].preConsumed \in Nat
    /\ ses[r].tokenConsumed \in Nat /\ ses[r].walletConsumed \in Nat
    /\ ses[r].subPre \in Nat /\ ses[r].extra \in Nat /\ ses[r].attempts \in Nat
    /\ req[r].actual \in Nat /\ req[r].quote \in Nat
    /\ paid[r].wallet \in Int /\ paid[r].token \in Int /\ paid[r].sub \in Int
    /\ paid[r].unmarked \in Nat

(* TypeOK and BillingInv, read at one request. *)
LEMMA LocalLemma ==
    ASSUME NEW r \in Requests, TypeOK, BillingInv
    PROVE  LocalType(r) /\ SessionInv(r) /\ FieldsTyped(r)
  <1>1. LocalType(r) /\ SessionInv(r)
    BY DEF TypeOK, BillingInv, LocalType
  <1>2. FieldsTyped(r)
    BY <1>1 DEF LocalType, FieldsTyped, Session, MaxAttempts, RequestRecord, Charge
  <1> QED BY <1>1, <1>2

(* A session that has taken nothing yet. *)
Fresh(s) ==
    /\ s \in Session
    /\ s.preConsumed = 0 /\ s.tokenConsumed = 0 /\ s.walletConsumed = 0
    /\ s.subPre = 0 /\ s.extra = 0 /\ s.attempts = 0
    /\ ~s.settled /\ ~s.refunded /\ ~s.fundingSettled

(* The zero value of a session is fresh. *)
LEMMA NoSessionFresh == Fresh(NoSession)
  BY DEF Fresh, NoSession, Session, MaxAttempts

(* The sessions NewBillingSession starts from are fresh. *)
LEMMA FreshSessions ==
    /\ \A f \in {"none", "wallet", "subscription"} : Fresh([NoSession EXCEPT !.fallback = f])
    /\ \A f \in {"none", "wallet", "subscription"} : \A n \in Nat :
          Fresh([NoSession EXCEPT !.funding = "subscription", !.fallback = f, !.effective = n])
    /\ \A b \in BOOLEAN, n \in Nat :
          /\ Fresh([NoSession EXCEPT !.funding = "wallet", !.trusted = b, !.effective = n])
          /\ [NoSession EXCEPT !.funding = "wallet", !.trusted = b, !.effective = n].effective = n
  <1>1. Fresh(NoSession)
    BY NoSessionFresh
  <1>2. ASSUME NEW f \in {"none", "wallet", "subscription"}
        PROVE  Fresh([NoSession EXCEPT !.fallback = f])
    BY <1>1 DEF Fresh, Session
  <1>3. ASSUME NEW f \in {"none", "wallet", "subscription"}, NEW n \in Nat
        PROVE  Fresh([NoSession EXCEPT !.funding = "subscription", !.fallback = f, !.effective = n])
    BY <1>1 DEF Fresh, Session
  <1>4. ASSUME NEW b \in BOOLEAN, NEW n \in Nat
        PROVE  /\ Fresh([NoSession EXCEPT !.funding = "wallet", !.trusted = b, !.effective = n])
               /\ [NoSession EXCEPT !.funding = "wallet", !.trusted = b, !.effective = n].effective = n
    BY <1>1 DEF Fresh, Session
  <1> QED BY <1>1, <1>2, <1>3, <1>4

(* So are the ones trySubscription and tryWallet start from, at r. *)
LEMMA StartFresh ==
    ASSUME TypeOK, NEW r \in Requests, NEW f \in {"none", "wallet", "subscription"}
    PROVE  /\ StartSubscription(r, f) => Fresh(ses'[r]) /\ pc'[r] = "tokenCheck"
           /\ StartWallet(r, f) => Fresh(ses'[r]) /\ pc'[r] = "tryWallet"
           /\ Reject(r) => Fresh(ses'[r]) /\ pc'[r] = "rejected"
  <1>1. req[r] \in RequestRecord /\ ses \in [Requests -> Session] /\ pc \in [Requests -> RequestLabels]
    BY DEF TypeOK
  <1>2. Larger(req[r].quote, 1) \in Nat
    BY <1>1 DEF Larger, RequestRecord
  <1>3. Fresh(SubscriptionSession(r, f))
    BY <1>2, FreshSessions DEF SubscriptionSession
  <1> QED BY <1>1, <1>3, FreshSessions, NoSessionFresh DEF StartSubscription, StartWallet, Reject,
      SetSession, Goto

-----------------------------------------------------------------------------
(* One lemma per action.  Each reads off what the action does at request r *)
(* (step 3) and checks r's types and r's part of the invariant from that.  *)

(* Arrive only fills in the request. *)
LEMMA ArriveStep ==
    ASSUME TypeOK, BillingInv, NEW r \in Requests, Arrive(r)
    PROVE  TypeOK' /\ BillingInv'
  <1>1. LocalType(r) /\ SessionInv(r)
    BY LocalLemma
  <1>2. OnlyAt(r)
    BY DEF TypeOK, Arrive, Goto, NoWrite, database, OnlyAt
  <1>3. PICK k \in Kinds, p \in Prefs, q \in Quotes, t \in CachedReads(tokenRemain) :
            /\ req' = [req EXCEPT ![r] = [req[r] EXCEPT !.kind = k, !.pref = p, !.quote = q,
                                   !.tokenTrusted = TokenUnlimited \/ t > TrustQuota]]
            /\ Goto(r, IF k = "free" THEN "serving" ELSE "choose")
    BY DEF Arrive
  <1>4. /\ pc[r] = "idle" /\ pc'[r] \in {"serving", "choose"}
        /\ UNCHANGED <<refundPc[r], ses[r], record[r], paid[r], fee[r], failed[r],
                       userQuota, tokenRemain, subUsed>>
    BY <1>3 DEF TypeOK, Arrive, Goto, NoWrite, database
  <1>5. req'[r] \in RequestRecord /\ req'[r].actual = req[r].actual
    <2>1. (TokenUnlimited \/ t > TrustQuota) \in BOOLEAN
      OBVIOUS
    <2> DEFINE b == TokenUnlimited \/ t > TrustQuota
    <2>2. b \in BOOLEAN
      BY <2>1
    <2>3. req'[r] = [req[r] EXCEPT !.kind = k, !.pref = p, !.quote = q, !.tokenTrusted = b]
      BY <1>3 DEF TypeOK
    <2> HIDE DEF b
    <2> QED BY <1>1, <2>2, <2>3, ConstantsAssumption DEF LocalType, RequestRecord
  <1>6. LocalType(r)'
    BY <1>1, <1>4, <1>5 DEF LocalType, RequestLabels
  <1>7. SessionInv(r)'
    BY <1>1, <1>4, <1>5, <1>6 DEF LocalType, SessionInv, UnfundedInv, OpenInv, SettledInv,
       RefundInv, LedgerInv,
       TokenCovers, Covers, Held, HeldElsewhere, HeldUnlessUnmarked, UnmarkedInv, Owed, Playground,
       BySubscription,
       BeforeToken, BeforeFunding, Agreed, Reserving, AfterServing,
       RequestRecord, Charge, Session, NoSession
  <1> QED BY <1>2, <1>6, <1>7, StepLemma

(* NewBillingSession replaces the session and takes nothing. *)
LEMMA NewBillingSessionStep ==
    ASSUME TypeOK, BillingInv, NEW r \in Requests, NewBillingSession(r)
    PROVE  TypeOK' /\ BillingInv'
  <1>1. LocalType(r) /\ SessionInv(r)
    BY LocalLemma
  <1>2. OnlyAt(r)
    BY DEF TypeOK, NewBillingSession, StartSubscription, StartWallet, Reject, Goto, SetSession,
       NoWrite, database, OnlyAt
  <1>3. UNCHANGED <<refundPc[r], req[r], record[r], paid[r], fee[r], failed[r], userQuota,
      tokenRemain, subUsed>>
    BY DEF TypeOK, NewBillingSession, StartSubscription, StartWallet, Reject, Goto, SetSession,
       NoWrite, database
  <1>4. /\ pc[r] = "choose" /\ pc'[r] \in {"rejected", "tryWallet", "tokenCheck"}
        /\ Fresh(ses'[r])
    BY <1>1, StartFresh DEF NewBillingSession
  <1>5. LocalType(r)'
    BY <1>1, <1>3, <1>4 DEF LocalType, Fresh, RequestLabels
  <1>6. SessionInv(r)'
    BY <1>1, <1>3, <1>4, <1>5 DEF Fresh, LocalType, SessionInv, UnfundedInv, OpenInv, SettledInv,
       RefundInv, LedgerInv,
       TokenCovers, Covers, Held, HeldElsewhere, HeldUnlessUnmarked, UnmarkedInv, Owed, Playground,
       BySubscription,
       BeforeToken, BeforeFunding, Agreed, Reserving, AfterServing,
       RequestRecord, Charge, Session, NoSession
  <1> QED BY <1>2, <1>5, <1>6, StepLemma

(* tryWallet starts a wallet session, falls back, or gives up. *)
LEMMA TryWalletStep ==
    ASSUME TypeOK, BillingInv, NEW r \in Requests, TryWallet(r)
    PROVE  TypeOK' /\ BillingInv'
  <1>1. LocalType(r) /\ SessionInv(r)
    BY LocalLemma
  <1>2. OnlyAt(r)
    BY DEF TypeOK, TryWallet, StartSubscription, Reject, Goto, SetSession, NoWrite, database, OnlyAt
  <1>3. UNCHANGED <<refundPc[r], req[r], record[r], paid[r], fee[r], failed[r],
                    userQuota, tokenRemain, subUsed>>
    BY DEF TypeOK, TryWallet, NoWrite, database
  <1>4. /\ pc[r] = "tryWallet"
        /\ Fresh(ses'[r])
        /\ \/ pc'[r] \in {"rejected", "tokenCheck"}
           \/ pc'[r] = "fundingPreConsume" /\ ses'[r].effective = 0
    <2>1. CASE StartSubscription(r, "none") \/ Reject(r)
      BY <2>1, StartFresh DEF TryWallet
    <2>2. CASE \E b \in BOOLEAN, n \in Nat :
                  /\ SetSession(r, [NoSession EXCEPT !.funding = "wallet", !.trusted = b,
                                                     !.effective = n])
                  /\ Goto(r, IF n > 0 THEN "tokenCheck" ELSE "fundingPreConsume")
      <3>1. PICK b \in BOOLEAN, n \in Nat :
                  /\ SetSession(r, [NoSession EXCEPT !.funding = "wallet", !.trusted = b,
                                                     !.effective = n])
                  /\ Goto(r, IF n > 0 THEN "tokenCheck" ELSE "fundingPreConsume")
        BY <2>2
      <3>2. /\ ses'[r] = [NoSession EXCEPT !.funding = "wallet", !.trusted = b, !.effective = n]
            /\ pc'[r] = IF n > 0 THEN "tokenCheck" ELSE "fundingPreConsume"
        BY <3>1 DEF TypeOK, SetSession, Goto
      <3>3. Fresh(ses'[r]) /\ ses'[r].effective = n
        BY <3>2, FreshSessions
      <3>4. pc[r] = "tryWallet"
        BY DEF TryWallet
      <3> QED BY <3>2, <3>3, <3>4
    <2>3. req[r].quote \in Nat
      BY <1>1 DEF LocalType, RequestRecord
    <2>4. \A quota : ShouldTrust(r, quota) \in BOOLEAN
      BY DEF ShouldTrust
    <2> QED BY <2>1, <2>2, <2>3, <2>4 DEF TryWallet
  <1>5. LocalType(r)'
    BY <1>1, <1>3, <1>4 DEF LocalType, Fresh, RequestLabels
  <1>6. SessionInv(r)'
    BY <1>1, <1>3, <1>4, <1>5 DEF Fresh, LocalType, SessionInv, UnfundedInv, OpenInv, SettledInv,
       RefundInv, LedgerInv,
       TokenCovers, Covers, Held, HeldElsewhere, HeldUnlessUnmarked, UnmarkedInv, Owed, Playground,
       BySubscription,
       BeforeToken, BeforeFunding, Agreed, Reserving, AfterServing,
       RequestRecord, Charge, Session
  <1> QED BY <1>2, <1>5, <1>6, StepLemma

(* The check of PreConsumeTokenQuota writes nothing. *)
LEMMA TokenCheckStep ==
    ASSUME TypeOK, BillingInv, NEW r \in Requests, TokenCheck(r)
    PROVE  TypeOK' /\ BillingInv'
  <1>1. LocalType(r) /\ SessionInv(r) /\ FieldsTyped(r)
    BY LocalLemma
  <1>2. OnlyAt(r)
    BY DEF TypeOK, TokenCheck, Goto, Reject, SetSession, NoWrite, database,
      OnlyAt
  <1> DEFINE
        Skipped ==
           /\ Playground(r)
           /\ pc'[r] = "fundingPreConsume"
           /\ ses'[r] = [ses[r] EXCEPT !.tokenConsumed = ses[r].effective]
        Passed ==
           /\ ~Playground(r)
           /\ pc'[r] = "tokenDecrease"
           /\ UNCHANGED <<ses[r]>>
        Refused ==
           /\ pc'[r] = "rejected"
           /\ Fresh(ses'[r])
  <1>3. /\ pc[r] = "tokenCheck"
        /\ UNCHANGED <<refundPc[r], req[r], record[r], paid[r], fee[r],
                        failed[r], userQuota, tokenRemain, subUsed>>
    BY DEF TypeOK, TokenCheck, Goto, Reject, SetSession, NoWrite, database
  <1>4. Skipped \/ Passed \/ Refused
    BY <1>1, <1>3, NoSessionFresh DEF TypeOK, TokenCheck, Goto, Reject, SetSession, NoWrite, database,
      FieldsTyped
  <1>5. CASE Skipped
    <2>1. /\ ses'[r] \in Session
          /\ ses'[r].tokenConsumed = ses[r].effective
          /\ UNCHANGED <<ses[r].funding, ses[r].effective,
                        ses[r].preConsumed, ses[r].walletConsumed,
                        ses[r].subPre, ses[r].extra, ses[r].fundingSettled,
                        ses[r].settled, ses[r].refunded, ses[r].attempts>>
      BY <1>1, <1>3, <1>5 DEF LocalType, FieldsTyped, Session
    <2>2. LocalType(r)'
      BY <1>1, <1>3, <1>5, <2>1 DEF LocalType, RequestLabels, RefundLabels, FieldsTyped
    <2>3. SessionInv(r)'
      BY <1>1, <1>3, <1>5, <2>1 DEF SessionInv, UnfundedInv, OpenInv, SettledInv, RefundInv, LedgerInv,
         TokenCovers, Covers, Held, HeldElsewhere, HeldUnlessUnmarked, UnmarkedInv, Owed,
         Playground, BySubscription,
         BeforeToken, BeforeFunding, Agreed, Reserving, AfterServing, FieldsTyped
    <2> QED BY <1>2, <2>2, <2>3, StepLemma
  <1>6. CASE Passed
    <2>1. LocalType(r)'
      BY <1>1, <1>3, <1>6 DEF LocalType, RequestLabels, RefundLabels, FieldsTyped
    <2>2. SessionInv(r)'
      BY <1>1, <1>3, <1>6 DEF SessionInv, UnfundedInv, OpenInv, SettledInv, RefundInv, LedgerInv,
         TokenCovers, Covers, Held, HeldElsewhere, HeldUnlessUnmarked, UnmarkedInv, Owed,
         Playground, BySubscription,
         BeforeToken, BeforeFunding, Agreed, Reserving, AfterServing, FieldsTyped
    <2> QED BY <1>2, <2>1, <2>2, StepLemma
  <1>7. CASE Refused
    <2>1. ses'[r] \in Session
      BY <1>7 DEF Fresh
    <2>2. LocalType(r)'
      BY <1>1, <1>3, <1>7, <2>1 DEF LocalType, RequestLabels, RefundLabels, FieldsTyped
    <2>3. SessionInv(r)'
      BY <1>1, <1>3, <1>7, <2>1 DEF SessionInv, UnfundedInv, OpenInv, SettledInv, RefundInv, LedgerInv,
         TokenCovers, Covers, Held, HeldElsewhere, HeldUnlessUnmarked, UnmarkedInv, Owed,
         Playground, BySubscription,
         BeforeToken, BeforeFunding, Agreed, Reserving, AfterServing, FieldsTyped, Fresh
    <2> QED BY <1>2, <2>2, <2>3, StepLemma
  <1> QED BY <1>4, <1>5, <1>6, <1>7

(* The decrement of PreConsumeTokenQuota. *)
LEMMA TokenDecreaseStep ==
    ASSUME TypeOK, BillingInv, NEW r \in Requests, TokenDecrease(r)
    PROVE  TypeOK' /\ BillingInv'
  <1>1. LocalType(r) /\ SessionInv(r) /\ FieldsTyped(r)
    BY LocalLemma
  <1>2. OnlyAt(r)
    BY DEF TypeOK, TokenDecrease, WriteToken, Goto, Reject, SetSession, NoWrite,
      database, OnlyAt
  <1> DEFINE
        Taken ==
           /\ pc'[r] = "fundingPreConsume"
           /\ ses'[r] = [ses[r] EXCEPT !.tokenConsumed = ses[r].effective]
           /\ paid'[r] = [paid[r] EXCEPT !.token = paid[r].token + ses[r].effective]
           /\ tokenRemain' = tokenRemain - ses[r].effective
        Refused ==
           /\ pc'[r] = "rejected"
           /\ Fresh(ses'[r])
           /\ UNCHANGED <<paid[r], tokenRemain>>
  <1>3. /\ pc[r] = "tokenDecrease"
        /\ UNCHANGED <<refundPc[r], req[r], record[r], fee[r], failed[r],
                        userQuota, subUsed>>
    BY DEF TypeOK, TokenDecrease, WriteToken, Goto, Reject, SetSession, NoWrite,
      database
  <1>4. Taken \/ Refused
    BY <1>1, <1>3, NoSessionFresh DEF TypeOK, TokenDecrease, WriteToken, Goto, Reject, SetSession,
       NoWrite,
      database, FieldsTyped
  <1>7. refundPc[r] = "idle" /\ ses[r].attempts = 0 /\ paid[r].unmarked = 0
    BY <1>1, <1>3 DEF SessionInv, RefundInv, LedgerInv, UnmarkedInv, AfterServing
  <1>5. CASE Taken
    <2>1. /\ ses'[r] \in Session
          /\ ses'[r].tokenConsumed = ses[r].effective
          /\ UNCHANGED <<ses[r].funding, ses[r].effective,
                        ses[r].preConsumed, ses[r].walletConsumed,
                        ses[r].subPre, ses[r].extra, ses[r].fundingSettled,
                        ses[r].settled, ses[r].refunded, ses[r].attempts>>
      BY <1>1, <1>3, <1>5 DEF LocalType, FieldsTyped, Session
    <2>2. /\ paid'[r] \in Charge
          /\ paid'[r].token = paid[r].token + ses[r].effective
          /\ UNCHANGED <<paid[r].wallet, paid[r].sub, paid[r].unmarked>>
      BY <1>1, <1>3, <1>5 DEF LocalType, FieldsTyped, Charge
    <2>3. LocalType(r)'
      BY <1>1, <1>3, <1>5, <2>1, <2>2 DEF LocalType, RequestLabels, RefundLabels, FieldsTyped
    <2>4. SessionInv(r)'
      BY <1>1, <1>3, <1>7, <1>5, <2>1, <2>2 DEF SessionInv, UnfundedInv, OpenInv, SettledInv,
         RefundInv, LedgerInv,
         TokenCovers, Covers, Held, HeldElsewhere, HeldUnlessUnmarked, UnmarkedInv, Owed,
         Playground, BySubscription,
         BeforeToken, BeforeFunding, Agreed, Reserving, AfterServing, FieldsTyped
    <2> QED BY <1>2, <2>3, <2>4, StepLemma
  <1>6. CASE Refused
    <2>1. ses'[r] \in Session
      BY <1>6 DEF Fresh
    <2>2. LocalType(r)'
      BY <1>1, <1>3, <1>6, <2>1 DEF LocalType, RequestLabels, RefundLabels, FieldsTyped
    <2>3. SessionInv(r)'
      BY <1>1, <1>3, <1>6, <2>1 DEF SessionInv, UnfundedInv, OpenInv, SettledInv, RefundInv, LedgerInv,
         TokenCovers, Covers, Held, HeldElsewhere, HeldUnlessUnmarked, UnmarkedInv, Owed,
         Playground, BySubscription,
         BeforeToken, BeforeFunding, Agreed, Reserving, AfterServing, FieldsTyped, Fresh
    <2> QED BY <1>2, <2>2, <2>3, StepLemma
  <1> QED BY <1>4, <1>5, <1>6

(* WalletFunding.PreConsume. *)
LEMMA WalletPreConsumeStep ==
    ASSUME TypeOK, BillingInv, NEW r \in Requests, WalletPreConsume(r)
    PROVE  TypeOK' /\ BillingInv'
  <1>1. LocalType(r) /\ SessionInv(r) /\ FieldsTyped(r)
    BY LocalLemma
  <1>2. OnlyAt(r)
    BY DEF TypeOK, WalletPreConsume, WriteWallet, PreConsumeRefused, Goto,
      SetSession, NoWrite, database, OnlyAt
  <1> DEFINE
        Free ==
           /\ ses[r].effective = 0
           /\ pc'[r] = "serving"
           /\ ses'[r] = [ses[r] EXCEPT !.preConsumed = ses[r].effective]
           /\ UNCHANGED <<paid[r], userQuota>>
        Taken ==
           /\ pc'[r] = "serving"
           /\ ses'[r] = [ses[r] EXCEPT !.walletConsumed = ses[r].effective,
                         !.preConsumed = ses[r].effective]
           /\ paid'[r] = [paid[r] EXCEPT !.wallet = paid[r].wallet + ses[r].effective]
           /\ userQuota' = userQuota - ses[r].effective
        Refused ==
           /\ pc'[r] = "rollback"
           /\ ses'[r] = [ses[r] EXCEPT !.err = "other"]
           /\ UNCHANGED <<paid[r], userQuota>>
  <1>3. /\ pc[r] = "fundingPreConsume"
        /\ ses[r].funding = "wallet"
        /\ UNCHANGED <<refundPc[r], req[r], record[r], fee[r], failed[r],
                        tokenRemain, subUsed>>
    BY DEF TypeOK, WalletPreConsume, WriteWallet, PreConsumeRefused, Goto,
      SetSession, NoWrite, database
  <1>4. Free \/ Taken \/ Refused
    BY <1>1, <1>3 DEF TypeOK, WalletPreConsume, WriteWallet, PreConsumeRefused, Goto,
      SetSession, NoWrite, database, FieldsTyped
  <1>5. CASE Free
    <2>1. /\ ses'[r] \in Session
          /\ ses'[r].preConsumed = ses[r].effective
          /\ UNCHANGED <<ses[r].funding, ses[r].effective,
                        ses[r].tokenConsumed, ses[r].walletConsumed,
                        ses[r].subPre, ses[r].extra, ses[r].fundingSettled,
                        ses[r].settled, ses[r].refunded, ses[r].attempts>>
      BY <1>1, <1>3, <1>5 DEF LocalType, FieldsTyped, Session
    <2>2. LocalType(r)'
      BY <1>1, <1>3, <1>5, <2>1 DEF LocalType, RequestLabels, RefundLabels, FieldsTyped
    <2>3. SessionInv(r)'
      BY <1>1, <1>3, <1>5, <2>1 DEF SessionInv, UnfundedInv, OpenInv, SettledInv, RefundInv, LedgerInv,
         TokenCovers, Covers, Held, HeldElsewhere, HeldUnlessUnmarked, UnmarkedInv, Owed,
         Playground, BySubscription,
         BeforeToken, BeforeFunding, Agreed, Reserving, AfterServing, FieldsTyped
    <2> QED BY <1>2, <2>2, <2>3, StepLemma
  <1>6. CASE Taken
    <2>1. /\ ses'[r] \in Session
          /\ ses'[r].walletConsumed = ses[r].effective
          /\ ses'[r].preConsumed = ses[r].effective
          /\ UNCHANGED <<ses[r].funding, ses[r].effective,
                        ses[r].tokenConsumed, ses[r].subPre, ses[r].extra,
                        ses[r].fundingSettled, ses[r].settled,
                        ses[r].refunded, ses[r].attempts>>
      BY <1>1, <1>3, <1>6 DEF LocalType, FieldsTyped, Session
    <2>2. /\ paid'[r] \in Charge
          /\ paid'[r].wallet = paid[r].wallet + ses[r].effective
          /\ UNCHANGED <<paid[r].token, paid[r].sub, paid[r].unmarked>>
      BY <1>1, <1>3, <1>6 DEF LocalType, FieldsTyped, Charge
    <2>3. LocalType(r)'
      BY <1>1, <1>3, <1>6, <2>1, <2>2 DEF LocalType, RequestLabels, RefundLabels, FieldsTyped
    <2>4. SessionInv(r)'
      BY <1>1, <1>3, <1>6, <2>1, <2>2 DEF SessionInv, UnfundedInv, OpenInv, SettledInv, RefundInv,
         LedgerInv,
         TokenCovers, Covers, Held, HeldElsewhere, HeldUnlessUnmarked, UnmarkedInv, Owed,
         Playground, BySubscription,
         BeforeToken, BeforeFunding, Agreed, Reserving, AfterServing, FieldsTyped
    <2> QED BY <1>2, <2>3, <2>4, StepLemma
  <1>7. CASE Refused
    <2>1. /\ ses'[r] \in Session
          /\ UNCHANGED <<ses[r].funding, ses[r].effective,
                        ses[r].preConsumed, ses[r].tokenConsumed,
                        ses[r].walletConsumed, ses[r].subPre, ses[r].extra,
                        ses[r].fundingSettled, ses[r].settled,
                        ses[r].refunded, ses[r].attempts>>
      BY <1>1, <1>3, <1>7 DEF LocalType, FieldsTyped, Session
    <2>2. LocalType(r)'
      BY <1>1, <1>3, <1>7, <2>1 DEF LocalType, RequestLabels, RefundLabels, FieldsTyped
    <2>3. SessionInv(r)'
      BY <1>1, <1>3, <1>7, <2>1 DEF SessionInv, UnfundedInv, OpenInv, SettledInv, RefundInv, LedgerInv,
         TokenCovers, Covers, Held, HeldElsewhere, HeldUnlessUnmarked, UnmarkedInv, Owed,
         Playground, BySubscription,
         BeforeToken, BeforeFunding, Agreed, Reserving, AfterServing, FieldsTyped
    <2> QED BY <1>2, <2>2, <2>3, StepLemma
  <1> QED BY <1>4, <1>5, <1>6, <1>7

(* SubscriptionFunding.PreConsume. *)
LEMMA SubscriptionPreConsumeStep ==
    ASSUME TypeOK, BillingInv, NEW r \in Requests, SubscriptionPreConsume(r)
    PROVE  TypeOK' /\ BillingInv'
  <1>1. LocalType(r) /\ SessionInv(r) /\ FieldsTyped(r)
    BY LocalLemma
  <1>2. OnlyAt(r)
    BY DEF TypeOK, SubscriptionPreConsume, BySubscription, WriteSub,
      PreConsumeRefused, Goto, SetSession, NoWrite, database, OnlyAt
  <1> DEFINE
        Taken ==
           /\ pc'[r] = "serving"
           /\ ses'[r] = [ses[r] EXCEPT !.subPre = ses[r].effective, !.preConsumed = ses[r].effective]
           /\ paid'[r] = [paid[r] EXCEPT !.sub = paid[r].sub + ses[r].effective]
           /\ record'[r] = "consumed"
           /\ subUsed' = Larger(subUsed + ses[r].effective, 0)
        Insufficient ==
           /\ pc'[r] = "rollback"
           /\ ses'[r] = [ses[r] EXCEPT !.err = "insufficient"]
           /\ UNCHANGED <<record[r], paid[r], subUsed>>
        Refused ==
           /\ pc'[r] = "rollback"
           /\ ses'[r] = [ses[r] EXCEPT !.err = "other"]
           /\ UNCHANGED <<record[r], paid[r], subUsed>>
  <1>3. /\ pc[r] = "fundingPreConsume"
        /\ ses[r].funding = "subscription"
        /\ UNCHANGED <<refundPc[r], req[r], fee[r], failed[r], userQuota,
                        tokenRemain>>
    BY DEF TypeOK, SubscriptionPreConsume, BySubscription, WriteSub,
      PreConsumeRefused, Goto, SetSession, NoWrite, database
  <1>4. Taken \/ Insufficient \/ Refused
    BY <1>1, <1>3 DEF TypeOK, SubscriptionPreConsume, BySubscription, WriteSub,
      PreConsumeRefused, Goto, SetSession, NoWrite, database, FieldsTyped
  <1>8. /\ refundPc[r] = "idle" /\ ses[r].attempts = 0 /\ paid[r].unmarked = 0
        /\ record[r] # "refunded"
    BY <1>1, <1>3 DEF SessionInv, RefundInv, LedgerInv, UnmarkedInv, AfterServing
  <1>5. CASE Taken
    <2>1. /\ ses'[r] \in Session
          /\ ses'[r].subPre = ses[r].effective
          /\ ses'[r].preConsumed = ses[r].effective
          /\ UNCHANGED <<ses[r].funding, ses[r].effective,
                        ses[r].tokenConsumed, ses[r].walletConsumed,
                        ses[r].extra, ses[r].fundingSettled, ses[r].settled,
                        ses[r].refunded, ses[r].attempts>>
      BY <1>1, <1>3, <1>5 DEF LocalType, FieldsTyped, Session
    <2>2. /\ paid'[r] \in Charge
          /\ paid'[r].sub = paid[r].sub + ses[r].effective
          /\ UNCHANGED <<paid[r].wallet, paid[r].token, paid[r].unmarked>>
      BY <1>1, <1>3, <1>5 DEF LocalType, FieldsTyped, Charge
    <2>3. LocalType(r)'
      BY <1>1, <1>3, <1>5, <2>1, <2>2 DEF LocalType, RequestLabels, RefundLabels, FieldsTyped, Larger
    <2>4. SessionInv(r)'
      <3>1. UnfundedInv(r)'
        BY <1>1, <1>3, <1>8, <1>5, <2>1, <2>2 DEF SessionInv, LedgerInv, UnfundedInv,
           TokenCovers, Covers, Held, HeldElsewhere, HeldUnlessUnmarked, UnmarkedInv, Owed,
           Playground, BySubscription, BeforeToken, BeforeFunding, Agreed, Reserving,
           AfterServing, FieldsTyped
      <3>2. OpenInv(r)'
        BY <1>1, <1>3, <1>8, <1>5, <2>1, <2>2 DEF SessionInv, LedgerInv, OpenInv, UnfundedInv,
           TokenCovers, Covers, Held, HeldElsewhere, HeldUnlessUnmarked, UnmarkedInv, Owed,
           Playground, BySubscription, BeforeToken, BeforeFunding, Agreed, Reserving,
           AfterServing, FieldsTyped
      <3>3. SettledInv(r)'
        BY <1>1, <1>3, <1>8, <1>5, <2>1, <2>2 DEF SettledInv, AfterServing
      <3>4. RefundInv(r)'
        BY <1>1, <1>3, <1>8, <1>5, <2>1, <2>2 DEF RefundInv
      <3>6. /\ Held(r)' = ses[r].effective /\ HeldElsewhere(r)' = 0
            /\ HeldUnlessUnmarked(r)' = ses[r].effective
        BY <1>1, <1>3, <1>8, <2>1, <2>2 DEF SessionInv, UnfundedInv, BeforeFunding, Held,
           HeldElsewhere, HeldUnlessUnmarked, BySubscription, FieldsTyped
      <3>5. LedgerInv(r)'
        BY <1>1, <1>3, <1>8, <1>5, <2>1, <2>2, <3>6 DEF SessionInv, LedgerInv, UnmarkedInv,
           BySubscription, AfterServing, FieldsTyped
      <3> QED BY <3>1, <3>2, <3>3, <3>4, <3>5 DEF SessionInv
    <2> QED BY <1>2, <2>3, <2>4, StepLemma
  <1>6. CASE Insufficient
    <2>1. /\ ses'[r] \in Session
          /\ UNCHANGED <<ses[r].funding, ses[r].effective,
                        ses[r].preConsumed, ses[r].tokenConsumed,
                        ses[r].walletConsumed, ses[r].subPre, ses[r].extra,
                        ses[r].fundingSettled, ses[r].settled,
                        ses[r].refunded, ses[r].attempts>>
      BY <1>1, <1>3, <1>6 DEF LocalType, FieldsTyped, Session
    <2>2. LocalType(r)'
      BY <1>1, <1>3, <1>6, <2>1 DEF LocalType, RequestLabels, RefundLabels, FieldsTyped
    <2>3. SessionInv(r)'
      BY <1>1, <1>3, <1>6, <2>1 DEF SessionInv, UnfundedInv, OpenInv, SettledInv, RefundInv, LedgerInv,
         TokenCovers, Covers, Held, HeldElsewhere, HeldUnlessUnmarked, UnmarkedInv, Owed,
         Playground, BySubscription,
         BeforeToken, BeforeFunding, Agreed, Reserving, AfterServing, FieldsTyped
    <2> QED BY <1>2, <2>2, <2>3, StepLemma
  <1>7. CASE Refused
    <2>1. /\ ses'[r] \in Session
          /\ UNCHANGED <<ses[r].funding, ses[r].effective,
                        ses[r].preConsumed, ses[r].tokenConsumed,
                        ses[r].walletConsumed, ses[r].subPre, ses[r].extra,
                        ses[r].fundingSettled, ses[r].settled,
                        ses[r].refunded, ses[r].attempts>>
      BY <1>1, <1>3, <1>7 DEF LocalType, FieldsTyped, Session
    <2>2. LocalType(r)'
      BY <1>1, <1>3, <1>7, <2>1 DEF LocalType, RequestLabels, RefundLabels, FieldsTyped
    <2>3. SessionInv(r)'
      BY <1>1, <1>3, <1>7, <2>1 DEF SessionInv, UnfundedInv, OpenInv, SettledInv, RefundInv, LedgerInv,
         TokenCovers, Covers, Held, HeldElsewhere, HeldUnlessUnmarked, UnmarkedInv, Owed,
         Playground, BySubscription,
         BeforeToken, BeforeFunding, Agreed, Reserving, AfterServing, FieldsTyped
    <2> QED BY <1>2, <2>2, <2>3, StepLemma
  <1> QED BY <1>4, <1>5, <1>6, <1>7

(* The error path of preConsume. *)
LEMMA RollbackTokenStep ==
    ASSUME TypeOK, BillingInv, NEW r \in Requests, RollbackToken(r)
    PROVE  TypeOK' /\ BillingInv'
  <1>1. LocalType(r) /\ SessionInv(r) /\ FieldsTyped(r)
    BY LocalLemma
  <1>2. OnlyAt(r)
    BY DEF TypeOK, RollbackToken, WriteToken, MarkFailed, StartWallet, Reject,
      Goto, SetSession, NoWrite, database, OnlyAt
  <1> DEFINE
        Nothing ==
           /\ Playground(r) \/ ses[r].tokenConsumed = 0
           /\ pc'[r] \in {"tryWallet", "rejected"}
           /\ Fresh(ses'[r])
           /\ UNCHANGED <<paid[r], failed[r], tokenRemain>>
        Returned ==
           /\ ~Playground(r)
           /\ pc'[r] \in {"tryWallet", "rejected"}
           /\ Fresh(ses'[r])
           /\ paid'[r] = [paid[r] EXCEPT !.token = paid[r].token + (- ses[r].tokenConsumed)]
           /\ tokenRemain' = tokenRemain - (- ses[r].tokenConsumed)
           /\ UNCHANGED <<failed[r]>>
        Lost ==
           /\ ~Playground(r)
           /\ pc'[r] \in {"tryWallet", "rejected"}
           /\ Fresh(ses'[r])
           /\ failed'[r] = TRUE
           /\ UNCHANGED <<paid[r], tokenRemain>>
  <1>3. /\ pc[r] = "rollback"
        /\ UNCHANGED <<refundPc[r], req[r], record[r], fee[r], userQuota,
                        subUsed>>
    BY DEF TypeOK, RollbackToken, WriteToken, MarkFailed, StartWallet, Reject,
      Goto, SetSession, NoWrite, database
  <1>4. Nothing \/ Returned \/ Lost
    BY <1>1, <1>3, StartFresh DEF TypeOK, RollbackToken, WriteToken, MarkFailed, StartWallet, Reject,
      Goto, SetSession, NoWrite, database, FieldsTyped
  <1>8. /\ refundPc[r] = "idle" /\ ses[r].attempts = 0 /\ paid[r].unmarked = 0
        /\ record[r] # "refunded"
    BY <1>1, <1>3 DEF SessionInv, RefundInv, LedgerInv, UnmarkedInv, AfterServing
  <1>5. CASE Nothing
    <2>1. ses'[r] \in Session
      BY <1>5 DEF Fresh
    <2>2. LocalType(r)'
      BY <1>1, <1>3, <1>5, <2>1 DEF LocalType, RequestLabels, RefundLabels, FieldsTyped
    <2>3. SessionInv(r)'
      <3>1. UnfundedInv(r)'
        BY <1>1, <1>3, <1>8, <1>5, <2>1 DEF SessionInv, LedgerInv, UnfundedInv,
           TokenCovers, Covers, Held, HeldElsewhere, HeldUnlessUnmarked, UnmarkedInv, Owed,
           Playground, BySubscription, BeforeToken, BeforeFunding, Agreed, Reserving,
           AfterServing, FieldsTyped, Fresh
      <3>2. OpenInv(r)'
        BY <1>1, <1>3, <1>8, <1>5, <2>1 DEF SessionInv, LedgerInv, OpenInv, UnfundedInv,
           TokenCovers, Covers, Held, HeldElsewhere, HeldUnlessUnmarked, UnmarkedInv, Owed,
           Playground, BySubscription, BeforeToken, BeforeFunding, Agreed, Reserving,
           AfterServing, FieldsTyped, Fresh
      <3>3. SettledInv(r)'
        BY <1>1, <1>3, <1>8, <1>5, <2>1 DEF SettledInv, AfterServing
      <3>4. RefundInv(r)'
        BY <1>1, <1>3, <1>8, <1>5, <2>1 DEF RefundInv
      <3>5. LedgerInv(r)'
        BY <1>1, <1>3, <1>8, <1>5, <2>1 DEF SessionInv, LedgerInv, UnfundedInv,
           TokenCovers, Covers, Held, HeldElsewhere, HeldUnlessUnmarked, UnmarkedInv, Owed,
           Playground, BySubscription, BeforeToken, BeforeFunding, Agreed, Reserving,
           AfterServing, FieldsTyped, Fresh
      <3> QED BY <3>1, <3>2, <3>3, <3>4, <3>5 DEF SessionInv
    <2> QED BY <1>2, <2>2, <2>3, StepLemma
  <1>6. CASE Returned
    <2>1. ses'[r] \in Session
      BY <1>6 DEF Fresh
    <2>2. /\ paid'[r] \in Charge
          /\ paid'[r].token = paid[r].token + (- ses[r].tokenConsumed)
          /\ UNCHANGED <<paid[r].wallet, paid[r].sub, paid[r].unmarked>>
      BY <1>1, <1>3, <1>6 DEF LocalType, FieldsTyped, Charge
    <2>3. LocalType(r)'
      BY <1>1, <1>3, <1>6, <2>1, <2>2 DEF LocalType, RequestLabels, RefundLabels, FieldsTyped
    <2>4. SessionInv(r)'
      <3>1. UnfundedInv(r)'
        BY <1>1, <1>3, <1>8, <1>6, <2>1, <2>2 DEF SessionInv, LedgerInv, UnfundedInv,
           TokenCovers, Covers, Held, HeldElsewhere, HeldUnlessUnmarked, UnmarkedInv, Owed,
           Playground, BySubscription, BeforeToken, BeforeFunding, Agreed, Reserving,
           AfterServing, FieldsTyped, Fresh
      <3>2. OpenInv(r)'
        BY <1>1, <1>3, <1>8, <1>6, <2>1, <2>2 DEF SessionInv, LedgerInv, OpenInv, UnfundedInv,
           TokenCovers, Covers, Held, HeldElsewhere, HeldUnlessUnmarked, UnmarkedInv, Owed,
           Playground, BySubscription, BeforeToken, BeforeFunding, Agreed, Reserving,
           AfterServing, FieldsTyped, Fresh
      <3>3. SettledInv(r)'
        BY <1>1, <1>3, <1>8, <1>6, <2>1, <2>2 DEF SettledInv, AfterServing
      <3>4. RefundInv(r)'
        BY <1>1, <1>3, <1>8, <1>6, <2>1, <2>2 DEF RefundInv
      <3>5. LedgerInv(r)'
        BY <1>1, <1>3, <1>8, <1>6, <2>1, <2>2 DEF SessionInv, LedgerInv, UnfundedInv,
           TokenCovers, Covers, Held, HeldElsewhere, HeldUnlessUnmarked, UnmarkedInv, Owed,
           Playground, BySubscription, BeforeToken, BeforeFunding, Agreed, Reserving,
           AfterServing, FieldsTyped, Fresh
      <3> QED BY <3>1, <3>2, <3>3, <3>4, <3>5 DEF SessionInv
    <2> QED BY <1>2, <2>3, <2>4, StepLemma
  <1>7. CASE Lost
    <2>1. ses'[r] \in Session
      BY <1>7 DEF Fresh
    <2>2. LocalType(r)'
      BY <1>1, <1>3, <1>7, <2>1 DEF LocalType, RequestLabels, RefundLabels, FieldsTyped
    <2>3. SessionInv(r)'
      <3>1. UnfundedInv(r)'
        BY <1>1, <1>3, <1>8, <1>7, <2>1 DEF SessionInv, LedgerInv, UnfundedInv,
           TokenCovers, Covers, Held, HeldElsewhere, HeldUnlessUnmarked, UnmarkedInv, Owed,
           Playground, BySubscription, BeforeToken, BeforeFunding, Agreed, Reserving,
           AfterServing, FieldsTyped, Fresh
      <3>2. OpenInv(r)'
        BY <1>1, <1>3, <1>8, <1>7, <2>1 DEF SessionInv, LedgerInv, OpenInv, UnfundedInv,
           TokenCovers, Covers, Held, HeldElsewhere, HeldUnlessUnmarked, UnmarkedInv, Owed,
           Playground, BySubscription, BeforeToken, BeforeFunding, Agreed, Reserving,
           AfterServing, FieldsTyped, Fresh
      <3>3. SettledInv(r)'
        BY <1>1, <1>3, <1>8, <1>7, <2>1 DEF SettledInv, AfterServing
      <3>4. RefundInv(r)'
        BY <1>1, <1>3, <1>8, <1>7, <2>1 DEF RefundInv
      <3>5. LedgerInv(r)'
        BY <1>1, <1>3, <1>8, <1>7, <2>1 DEF SessionInv, LedgerInv, UnfundedInv,
           TokenCovers, Covers, Held, HeldElsewhere, HeldUnlessUnmarked, UnmarkedInv, Owed,
           Playground, BySubscription, BeforeToken, BeforeFunding, Agreed, Reserving,
           AfterServing, FieldsTyped, Fresh
      <3> QED BY <3>1, <3>2, <3>3, <3>4, <3>5 DEF SessionInv
    <2> QED BY <1>2, <2>2, <2>3, StepLemma
  <1> QED BY <1>4, <1>5, <1>6, <1>7

(* reserveFunding: the funding source goes first. *)
LEMMA ReserveFundingStep ==
    ASSUME TypeOK, BillingInv, NEW r \in Requests, ReserveFunding(r)
    PROVE  TypeOK' /\ BillingInv'
  <1>1. LocalType(r) /\ SessionInv(r) /\ FieldsTyped(r)
    BY LocalLemma
  <1>2. OnlyAt(r)
    BY DEF TypeOK, ReserveFunding, BySubscription, WriteWallet, WriteSub,
      ReserveRefused, ReserveDelta, Goto, SetSession, NoWrite, database,
      OnlyAt
  <1> DEFINE
        FromWallet ==
           /\ ~BySubscription(r)
           /\ pc'[r] = "reserveTokenCheck"
           /\ ses'[r] = [ses[r] EXCEPT !.walletConsumed = ses[r].walletConsumed + (ses[r].effective - ses[r].preConsumed)]
           /\ paid'[r] = [paid[r] EXCEPT !.wallet = paid[r].wallet + (ses[r].effective - ses[r].preConsumed)]
           /\ userQuota' = userQuota - (ses[r].effective - ses[r].preConsumed)
           /\ UNCHANGED <<subUsed>>
        FromSubscription ==
           /\ BySubscription(r)
           /\ pc'[r] = "reserveTokenCheck"
           /\ paid'[r] = [paid[r] EXCEPT !.sub = paid[r].sub + (ses[r].effective - ses[r].preConsumed)]
           /\ subUsed' = Larger(subUsed + (ses[r].effective - ses[r].preConsumed), 0)
           /\ UNCHANGED <<ses[r], userQuota>>
        Refused ==
           /\ pc'[r] = "refund"
           /\ UNCHANGED <<ses[r], paid[r], userQuota, subUsed>>
  <1>3. /\ pc[r] = "reserveFunding"
        /\ UNCHANGED <<refundPc[r], req[r], record[r], fee[r], failed[r],
                        tokenRemain>>
    BY DEF TypeOK, ReserveFunding, BySubscription, WriteWallet, WriteSub,
      ReserveRefused, ReserveDelta, Goto, SetSession, NoWrite, database
  <1>4. FromWallet \/ FromSubscription \/ Refused
    BY <1>1, <1>3 DEF TypeOK, ReserveFunding, BySubscription, WriteWallet, WriteSub,
      ReserveRefused, ReserveDelta, Goto, SetSession, NoWrite, database,
      FieldsTyped
  <1>5. /\ ses[r].tokenConsumed + (ses[r].effective - ses[r].preConsumed) \in Nat
        /\ ses[r].extra + (ses[r].effective - ses[r].preConsumed) \in Nat
        /\ ses[r].walletConsumed + (ses[r].effective - ses[r].preConsumed) \in Nat
    BY <1>1, <1>3 DEF SessionInv, OpenInv, Agreed, Reserving, FieldsTyped
  <1>6. CASE FromWallet
    <2>1. /\ ses'[r] \in Session
          /\ ses'[r].walletConsumed = ses[r].walletConsumed + (ses[r].effective - ses[r].preConsumed)
          /\ UNCHANGED <<ses[r].funding, ses[r].effective,
                        ses[r].preConsumed, ses[r].tokenConsumed,
                        ses[r].subPre, ses[r].extra, ses[r].fundingSettled,
                        ses[r].settled, ses[r].refunded, ses[r].attempts>>
      BY <1>1, <1>3, <1>5, <1>6 DEF LocalType, FieldsTyped, Session
    <2>2. /\ paid'[r] \in Charge
          /\ paid'[r].wallet = paid[r].wallet + (ses[r].effective - ses[r].preConsumed)
          /\ UNCHANGED <<paid[r].token, paid[r].sub, paid[r].unmarked>>
      BY <1>1, <1>3, <1>6 DEF LocalType, FieldsTyped, Charge
    <2>3. LocalType(r)'
      BY <1>1, <1>3, <1>6, <2>1, <2>2 DEF LocalType, RequestLabels, RefundLabels, FieldsTyped
    <2>4. SessionInv(r)'
      BY <1>1, <1>3, <1>6, <2>1, <2>2 DEF SessionInv, UnfundedInv, OpenInv, SettledInv, RefundInv,
         LedgerInv,
         TokenCovers, Covers, Held, HeldElsewhere, HeldUnlessUnmarked, UnmarkedInv, Owed,
         Playground, BySubscription,
         BeforeToken, BeforeFunding, Agreed, Reserving, AfterServing, FieldsTyped
    <2> QED BY <1>2, <2>3, <2>4, StepLemma
  <1>7. CASE FromSubscription
    <2>1. /\ paid'[r] \in Charge
          /\ paid'[r].sub = paid[r].sub + (ses[r].effective - ses[r].preConsumed)
          /\ UNCHANGED <<paid[r].wallet, paid[r].token, paid[r].unmarked>>
      BY <1>1, <1>3, <1>7 DEF LocalType, FieldsTyped, Charge
    <2>2. LocalType(r)'
      BY <1>1, <1>3, <1>7, <2>1 DEF LocalType, RequestLabels, RefundLabels, FieldsTyped, Larger
    <2>3. SessionInv(r)'
      BY <1>1, <1>3, <1>7, <2>1 DEF SessionInv, UnfundedInv, OpenInv, SettledInv, RefundInv, LedgerInv,
         TokenCovers, Covers, Held, HeldElsewhere, HeldUnlessUnmarked, UnmarkedInv, Owed,
         Playground, BySubscription,
         BeforeToken, BeforeFunding, Agreed, Reserving, AfterServing, FieldsTyped
    <2> QED BY <1>2, <2>2, <2>3, StepLemma
  <1>8. CASE Refused
    <2>1. LocalType(r)'
      BY <1>1, <1>3, <1>8 DEF LocalType, RequestLabels, RefundLabels, FieldsTyped
    <2>2. SessionInv(r)'
      BY <1>1, <1>3, <1>8 DEF SessionInv, UnfundedInv, OpenInv, SettledInv, RefundInv, LedgerInv,
         TokenCovers, Covers, Held, HeldElsewhere, HeldUnlessUnmarked, UnmarkedInv, Owed,
         Playground, BySubscription,
         BeforeToken, BeforeFunding, Agreed, Reserving, AfterServing, FieldsTyped
    <2> QED BY <1>2, <2>1, <2>2, StepLemma
  <1> QED BY <1>4, <1>6, <1>7, <1>8

(* reserveToken: the check, or the playground's shortcut. *)
LEMMA ReserveTokenCheckStep ==
    ASSUME TypeOK, BillingInv, NEW r \in Requests, ReserveTokenCheck(r)
    PROVE  TypeOK' /\ BillingInv'
  <1>1. LocalType(r) /\ SessionInv(r) /\ FieldsTyped(r)
    BY LocalLemma
  <1>2. OnlyAt(r)
    BY DEF TypeOK, ReserveTokenCheck, Reserved, ReserveDelta, Goto, SetSession,
      NoWrite, database, OnlyAt
  <1> DEFINE
        Skipped ==
           /\ Playground(r)
           /\ pc'[r] = "serving"
           /\ ses'[r] = [ses[r] EXCEPT !.preConsumed = ses[r].effective,
                         !.tokenConsumed = ses[r].tokenConsumed + (ses[r].effective - ses[r].preConsumed),
                         !.extra = ses[r].extra + (ses[r].effective - ses[r].preConsumed)]
        Checked ==
           /\ ~Playground(r)
           /\ pc'[r] \in {"reserveTokenDecrease", "reserveRollback"}
           /\ UNCHANGED <<ses[r]>>
  <1>3. /\ pc[r] = "reserveTokenCheck"
        /\ UNCHANGED <<refundPc[r], req[r], record[r], paid[r], fee[r],
                        failed[r], userQuota, tokenRemain, subUsed>>
    BY DEF TypeOK, ReserveTokenCheck, Reserved, ReserveDelta, Goto, SetSession,
      NoWrite, database
  <1>4. Skipped \/ Checked
    BY <1>1, <1>3 DEF TypeOK, ReserveTokenCheck, Reserved, ReserveDelta, Goto, SetSession,
      NoWrite, database, FieldsTyped
  <1>5. /\ ses[r].tokenConsumed + (ses[r].effective - ses[r].preConsumed) \in Nat
        /\ ses[r].extra + (ses[r].effective - ses[r].preConsumed) \in Nat
        /\ ses[r].walletConsumed + (ses[r].effective - ses[r].preConsumed) \in Nat
    BY <1>1, <1>3 DEF SessionInv, OpenInv, Agreed, Reserving, FieldsTyped
  <1>6. CASE Skipped
    <2>1. /\ ses'[r] \in Session
          /\ ses'[r].preConsumed = ses[r].effective
          /\ ses'[r].tokenConsumed = ses[r].tokenConsumed + (ses[r].effective - ses[r].preConsumed)
          /\ ses'[r].extra = ses[r].extra + (ses[r].effective - ses[r].preConsumed)
          /\ UNCHANGED <<ses[r].funding, ses[r].effective,
                        ses[r].walletConsumed, ses[r].subPre,
                        ses[r].fundingSettled, ses[r].settled,
                        ses[r].refunded, ses[r].attempts>>
      BY <1>1, <1>3, <1>5, <1>6 DEF LocalType, FieldsTyped, Session
    <2>2. LocalType(r)'
      BY <1>1, <1>3, <1>6, <2>1 DEF LocalType, RequestLabels, RefundLabels, FieldsTyped
    <2>3. SessionInv(r)'
      BY <1>1, <1>3, <1>6, <2>1 DEF SessionInv, UnfundedInv, OpenInv, SettledInv, RefundInv, LedgerInv,
         TokenCovers, Covers, Held, HeldElsewhere, HeldUnlessUnmarked, UnmarkedInv, Owed,
         Playground, BySubscription,
         BeforeToken, BeforeFunding, Agreed, Reserving, AfterServing, FieldsTyped
    <2> QED BY <1>2, <2>2, <2>3, StepLemma
  <1>7. CASE Checked
    <2>1. LocalType(r)'
      BY <1>1, <1>3, <1>7 DEF LocalType, RequestLabels, RefundLabels, FieldsTyped
    <2>2. SessionInv(r)'
      BY <1>1, <1>3, <1>7 DEF SessionInv, UnfundedInv, OpenInv, SettledInv, RefundInv, LedgerInv,
         TokenCovers, Covers, Held, HeldElsewhere, HeldUnlessUnmarked, UnmarkedInv, Owed,
         Playground, BySubscription,
         BeforeToken, BeforeFunding, Agreed, Reserving, AfterServing, FieldsTyped
    <2> QED BY <1>2, <2>1, <2>2, StepLemma
  <1> QED BY <1>4, <1>6, <1>7

(* reserveToken: the decrement. *)
LEMMA ReserveTokenDecreaseStep ==
    ASSUME TypeOK, BillingInv, NEW r \in Requests, ReserveTokenDecrease(r)
    PROVE  TypeOK' /\ BillingInv'
  <1>1. LocalType(r) /\ SessionInv(r) /\ FieldsTyped(r)
    BY LocalLemma
  <1>2. OnlyAt(r)
    BY DEF TypeOK, ReserveTokenDecrease, Reserved, ReserveDelta, WriteToken,
      Goto, SetSession, NoWrite, database, OnlyAt
  <1> DEFINE
        Taken ==
           /\ pc'[r] = "serving"
           /\ ses'[r] = [ses[r] EXCEPT !.preConsumed = ses[r].effective,
                         !.tokenConsumed = ses[r].tokenConsumed + (ses[r].effective - ses[r].preConsumed),
                         !.extra = ses[r].extra + (ses[r].effective - ses[r].preConsumed)]
           /\ paid'[r] = [paid[r] EXCEPT !.token = paid[r].token + (ses[r].effective - ses[r].preConsumed)]
           /\ tokenRemain' = tokenRemain - (ses[r].effective - ses[r].preConsumed)
        Refused ==
           /\ pc'[r] = "reserveRollback"
           /\ UNCHANGED <<ses[r], paid[r], tokenRemain>>
  <1>3. /\ pc[r] = "reserveTokenDecrease"
        /\ UNCHANGED <<refundPc[r], req[r], record[r], fee[r], failed[r],
                        userQuota, subUsed>>
    BY DEF TypeOK, ReserveTokenDecrease, Reserved, ReserveDelta, WriteToken,
      Goto, SetSession, NoWrite, database
  <1>4. Taken \/ Refused
    BY <1>1, <1>3 DEF TypeOK, ReserveTokenDecrease, Reserved, ReserveDelta, WriteToken,
      Goto, SetSession, NoWrite, database, FieldsTyped
  <1>5. /\ ses[r].tokenConsumed + (ses[r].effective - ses[r].preConsumed) \in Nat
        /\ ses[r].extra + (ses[r].effective - ses[r].preConsumed) \in Nat
        /\ ses[r].walletConsumed + (ses[r].effective - ses[r].preConsumed) \in Nat
    BY <1>1, <1>3 DEF SessionInv, OpenInv, Agreed, Reserving, FieldsTyped
  <1>6. CASE Taken
    <2>1. /\ ses'[r] \in Session
          /\ ses'[r].preConsumed = ses[r].effective
          /\ ses'[r].tokenConsumed = ses[r].tokenConsumed + (ses[r].effective - ses[r].preConsumed)
          /\ ses'[r].extra = ses[r].extra + (ses[r].effective - ses[r].preConsumed)
          /\ UNCHANGED <<ses[r].funding, ses[r].effective,
                        ses[r].walletConsumed, ses[r].subPre,
                        ses[r].fundingSettled, ses[r].settled,
                        ses[r].refunded, ses[r].attempts>>
      BY <1>1, <1>3, <1>5, <1>6 DEF LocalType, FieldsTyped, Session
    <2>2. /\ paid'[r] \in Charge
          /\ paid'[r].token = paid[r].token + (ses[r].effective - ses[r].preConsumed)
          /\ UNCHANGED <<paid[r].wallet, paid[r].sub, paid[r].unmarked>>
      BY <1>1, <1>3, <1>6 DEF LocalType, FieldsTyped, Charge
    <2>3. LocalType(r)'
      BY <1>1, <1>3, <1>6, <2>1, <2>2 DEF LocalType, RequestLabels, RefundLabels, FieldsTyped
    <2>4. SessionInv(r)'
      BY <1>1, <1>3, <1>6, <2>1, <2>2 DEF SessionInv, UnfundedInv, OpenInv, SettledInv, RefundInv,
         LedgerInv,
         TokenCovers, Covers, Held, HeldElsewhere, HeldUnlessUnmarked, UnmarkedInv, Owed,
         Playground, BySubscription,
         BeforeToken, BeforeFunding, Agreed, Reserving, AfterServing, FieldsTyped
    <2> QED BY <1>2, <2>3, <2>4, StepLemma
  <1>7. CASE Refused
    <2>1. LocalType(r)'
      BY <1>1, <1>3, <1>7 DEF LocalType, RequestLabels, RefundLabels, FieldsTyped
    <2>2. SessionInv(r)'
      BY <1>1, <1>3, <1>7 DEF SessionInv, UnfundedInv, OpenInv, SettledInv, RefundInv, LedgerInv,
         TokenCovers, Covers, Held, HeldElsewhere, HeldUnlessUnmarked, UnmarkedInv, Owed,
         Playground, BySubscription,
         BeforeToken, BeforeFunding, Agreed, Reserving, AfterServing, FieldsTyped
    <2> QED BY <1>2, <2>1, <2>2, StepLemma
  <1> QED BY <1>4, <1>6, <1>7

(* rollbackFundingReserve gives the raise back. *)
LEMMA ReserveRollbackStep ==
    ASSUME TypeOK, BillingInv, NEW r \in Requests, ReserveRollback(r)
    PROVE  TypeOK' /\ BillingInv'
  <1>1. LocalType(r) /\ SessionInv(r) /\ FieldsTyped(r)
    BY LocalLemma
  <1>2. OnlyAt(r)
    BY DEF TypeOK, ReserveRollback, BySubscription, WriteWallet, WriteSub,
      MarkFailed, ReserveDelta, Goto, SetSession, NoWrite, database, OnlyAt
  <1> DEFINE
        ToWallet ==
           /\ ~BySubscription(r)
           /\ pc'[r] = "refund"
           /\ ses'[r] = [ses[r] EXCEPT !.walletConsumed = ses[r].walletConsumed - (ses[r].effective - ses[r].preConsumed)]
           /\ paid'[r] = [paid[r] EXCEPT !.wallet = paid[r].wallet + (- (ses[r].effective - ses[r].preConsumed))]
           /\ userQuota' = userQuota - (- (ses[r].effective - ses[r].preConsumed))
           /\ UNCHANGED <<failed[r], subUsed>>
        ToSubscription ==
           /\ BySubscription(r)
           /\ pc'[r] = "refund"
           /\ paid'[r] = [paid[r] EXCEPT !.sub = paid[r].sub + (- (ses[r].effective - ses[r].preConsumed))]
           /\ subUsed' = Larger(subUsed + (- (ses[r].effective - ses[r].preConsumed)), 0)
           /\ UNCHANGED <<ses[r], failed[r], userQuota>>
        Lost ==
           /\ pc'[r] = "refund"
           /\ failed'[r] = TRUE
           /\ UNCHANGED <<ses[r], paid[r], userQuota, subUsed>>
  <1>3. /\ pc[r] = "reserveRollback"
        /\ UNCHANGED <<refundPc[r], req[r], record[r], fee[r], tokenRemain>>
    BY DEF TypeOK, ReserveRollback, BySubscription, WriteWallet, WriteSub,
      MarkFailed, ReserveDelta, Goto, SetSession, NoWrite, database
  <1>4. ToWallet \/ ToSubscription \/ Lost
    BY <1>1, <1>3 DEF TypeOK, ReserveRollback, BySubscription, WriteWallet, WriteSub,
      MarkFailed, ReserveDelta, Goto, SetSession, NoWrite, database,
      FieldsTyped
  <1>5. CASE ToWallet
    <2>1. /\ ses'[r] \in Session
          /\ ses'[r].walletConsumed = ses[r].walletConsumed - (ses[r].effective - ses[r].preConsumed)
          /\ UNCHANGED <<ses[r].funding, ses[r].effective,
                        ses[r].preConsumed, ses[r].tokenConsumed,
                        ses[r].subPre, ses[r].extra, ses[r].fundingSettled,
                        ses[r].settled, ses[r].refunded, ses[r].attempts>>
      BY <1>1, <1>3, <1>5 DEF LocalType, FieldsTyped, Session, SessionInv, OpenInv, Reserving,
         Held, BySubscription
    <2>2. /\ paid'[r] \in Charge
          /\ paid'[r].wallet = paid[r].wallet + (- (ses[r].effective - ses[r].preConsumed))
          /\ UNCHANGED <<paid[r].token, paid[r].sub, paid[r].unmarked>>
      BY <1>1, <1>3, <1>5 DEF LocalType, FieldsTyped, Charge
    <2>3. LocalType(r)'
      BY <1>1, <1>3, <1>5, <2>1, <2>2 DEF LocalType, RequestLabels, RefundLabels, FieldsTyped
    <2>4. SessionInv(r)'
      <3>1. UnfundedInv(r)'
        BY <1>1, <1>3, <1>5, <2>1, <2>2 DEF SessionInv, UnfundedInv, OpenInv, SettledInv,
           RefundInv, LedgerInv,
         TokenCovers, Covers, Held, HeldElsewhere, HeldUnlessUnmarked, UnmarkedInv, Owed,
         Playground, BySubscription,
         BeforeToken, BeforeFunding, Agreed, Reserving, AfterServing, FieldsTyped
      <3>2. OpenInv(r)'
        BY <1>1, <1>3, <1>5, <2>1, <2>2 DEF SessionInv, UnfundedInv, OpenInv, SettledInv,
           RefundInv, LedgerInv,
         TokenCovers, Covers, Held, HeldElsewhere, HeldUnlessUnmarked, UnmarkedInv, Owed,
         Playground, BySubscription,
         BeforeToken, BeforeFunding, Agreed, Reserving, AfterServing, FieldsTyped
      <3>3. SettledInv(r)'
        BY <1>1, <1>3, <1>5, <2>1, <2>2 DEF SessionInv, UnfundedInv, OpenInv, SettledInv,
           RefundInv, LedgerInv,
         TokenCovers, Covers, Held, HeldElsewhere, HeldUnlessUnmarked, UnmarkedInv, Owed,
         Playground, BySubscription,
         BeforeToken, BeforeFunding, Agreed, Reserving, AfterServing, FieldsTyped
      <3>4. RefundInv(r)'
        BY <1>1, <1>3, <1>5, <2>1, <2>2 DEF SessionInv, UnfundedInv, OpenInv, SettledInv,
           RefundInv, LedgerInv,
         TokenCovers, Covers, Held, HeldElsewhere, HeldUnlessUnmarked, UnmarkedInv, Owed,
         Playground, BySubscription,
         BeforeToken, BeforeFunding, Agreed, Reserving, AfterServing, FieldsTyped
      <3>5. LedgerInv(r)'
        BY <1>1, <1>3, <1>5, <2>1, <2>2 DEF SessionInv, UnfundedInv, OpenInv, SettledInv,
           RefundInv, LedgerInv,
         TokenCovers, Covers, Held, HeldElsewhere, HeldUnlessUnmarked, UnmarkedInv, Owed,
         Playground, BySubscription,
         BeforeToken, BeforeFunding, Agreed, Reserving, AfterServing, FieldsTyped
      <3> QED BY <3>1, <3>2, <3>3, <3>4, <3>5 DEF SessionInv
    <2> QED BY <1>2, <2>3, <2>4, StepLemma
  <1>6. CASE ToSubscription
    <2>1. /\ paid'[r] \in Charge
          /\ paid'[r].sub = paid[r].sub + (- (ses[r].effective - ses[r].preConsumed))
          /\ UNCHANGED <<paid[r].wallet, paid[r].token, paid[r].unmarked>>
      BY <1>1, <1>3, <1>6 DEF LocalType, FieldsTyped, Charge
    <2>2. LocalType(r)'
      BY <1>1, <1>3, <1>6, <2>1 DEF LocalType, RequestLabels, RefundLabels, FieldsTyped, Larger
    <2>3. SessionInv(r)'
      BY <1>1, <1>3, <1>6, <2>1 DEF SessionInv, UnfundedInv, OpenInv, SettledInv, RefundInv, LedgerInv,
         TokenCovers, Covers, Held, HeldElsewhere, HeldUnlessUnmarked, UnmarkedInv, Owed,
         Playground, BySubscription,
         BeforeToken, BeforeFunding, Agreed, Reserving, AfterServing, FieldsTyped
    <2> QED BY <1>2, <2>2, <2>3, StepLemma
  <1>7. CASE Lost
    <2>1. LocalType(r)'
      BY <1>1, <1>3, <1>7 DEF LocalType, RequestLabels, RefundLabels, FieldsTyped
    <2>2. SessionInv(r)'
      BY <1>1, <1>3, <1>7 DEF SessionInv, UnfundedInv, OpenInv, SettledInv, RefundInv, LedgerInv,
         TokenCovers, Covers, Held, HeldElsewhere, HeldUnlessUnmarked, UnmarkedInv, Owed,
         Playground, BySubscription,
         BeforeToken, BeforeFunding, Agreed, Reserving, AfterServing, FieldsTyped
    <2> QED BY <1>2, <2>1, <2>2, StepLemma
  <1> QED BY <1>4, <1>5, <1>6, <1>7

(* Settle, first commit. *)
LEMMA SettleFundingStep ==
    ASSUME TypeOK, BillingInv, NEW r \in Requests, SettleFunding(r)
    PROVE  TypeOK' /\ BillingInv'
  <1>1. LocalType(r) /\ SessionInv(r) /\ FieldsTyped(r)
    BY LocalLemma
  <1>2. OnlyAt(r)
    BY DEF TypeOK, SettleFunding, BySubscription, WriteWallet, WriteSub,
      MarkFailed, SettleDelta, Goto, SetSession, NoWrite, database, OnlyAt
  <1> DEFINE
        Even ==
           /\ req[r].actual = ses[r].preConsumed
           /\ pc'[r] = "done"
           /\ ses'[r] = [ses[r] EXCEPT !.settled = TRUE]
           /\ UNCHANGED <<paid[r], failed[r], userQuota, subUsed>>
        AllWallet ==
           /\ ~BySubscription(r)
           /\ Playground(r)
           /\ pc'[r] = "done"
           /\ ses'[r] = [ses[r] EXCEPT !.fundingSettled = TRUE, !.settled = TRUE]
           /\ paid'[r] = [paid[r] EXCEPT !.wallet = paid[r].wallet + (req[r].actual - ses[r].preConsumed)]
           /\ userQuota' = userQuota - (req[r].actual - ses[r].preConsumed)
           /\ UNCHANGED <<failed[r], subUsed>>
        WalletFirst ==
           /\ ~BySubscription(r)
           /\ ~Playground(r)
           /\ pc'[r] = "settleToken"
           /\ ses'[r] = [ses[r] EXCEPT !.fundingSettled = TRUE]
           /\ paid'[r] = [paid[r] EXCEPT !.wallet = paid[r].wallet + (req[r].actual - ses[r].preConsumed)]
           /\ userQuota' = userQuota - (req[r].actual - ses[r].preConsumed)
           /\ UNCHANGED <<failed[r], subUsed>>
        AllSubscription ==
           /\ BySubscription(r)
           /\ Playground(r)
           /\ pc'[r] = "done"
           /\ ses'[r] = [ses[r] EXCEPT !.fundingSettled = TRUE, !.settled = TRUE]
           /\ paid'[r] = [paid[r] EXCEPT !.sub = paid[r].sub + (req[r].actual - ses[r].preConsumed)]
           /\ subUsed' = Larger(subUsed + (req[r].actual - ses[r].preConsumed), 0)
           /\ UNCHANGED <<failed[r], userQuota>>
        SubscriptionFirst ==
           /\ BySubscription(r)
           /\ ~Playground(r)
           /\ pc'[r] = "settleToken"
           /\ ses'[r] = [ses[r] EXCEPT !.fundingSettled = TRUE]
           /\ paid'[r] = [paid[r] EXCEPT !.sub = paid[r].sub + (req[r].actual - ses[r].preConsumed)]
           /\ subUsed' = Larger(subUsed + (req[r].actual - ses[r].preConsumed), 0)
           /\ UNCHANGED <<failed[r], userQuota>>
        Lost ==
           /\ pc'[r] = "done"
           /\ failed'[r] = TRUE
           /\ UNCHANGED <<ses[r], paid[r], userQuota, subUsed>>
  <1>3. /\ pc[r] = "settle"
        /\ UNCHANGED <<refundPc[r], req[r], record[r], fee[r], tokenRemain>>
    BY DEF TypeOK, SettleFunding, BySubscription, WriteWallet, WriteSub,
      MarkFailed, SettleDelta, Goto, SetSession, NoWrite, database
  <1>4. Even \/ AllWallet \/ WalletFirst \/ AllSubscription \/ SubscriptionFirst \/ Lost
    <2>1. CASE SettleDelta(r) = 0
      <3>1. req[r].actual = ses[r].preConsumed
        BY <1>1, <2>1 DEF SettleDelta, FieldsTyped
      <3>2. Even
        BY <2>1, <3>1 DEF TypeOK, SettleFunding, Goto, SetSession, NoWrite, database
      <3> QED BY <3>2
    <2>2. CASE SettleDelta(r) # 0 /\ ~BySubscription(r)
      BY <2>2 DEF TypeOK, SettleFunding, SettleDelta, WriteWallet, MarkFailed, Goto,
         SetSession, NoWrite, database
    <2>3. CASE SettleDelta(r) # 0 /\ BySubscription(r)
      BY <2>3 DEF TypeOK, SettleFunding, SettleDelta, WriteSub, MarkFailed, Goto,
         SetSession, NoWrite, database
    <2> QED BY <2>1, <2>2, <2>3
  <1>5. CASE Even
    <2>1. /\ ses'[r] \in Session
          /\ ses'[r].settled = TRUE
          /\ UNCHANGED <<ses[r].funding, ses[r].effective,
                        ses[r].preConsumed, ses[r].tokenConsumed,
                        ses[r].walletConsumed, ses[r].subPre, ses[r].extra,
                        ses[r].fundingSettled, ses[r].refunded,
                        ses[r].attempts>>
      BY <1>1, <1>3, <1>5 DEF LocalType, FieldsTyped, Session
    <2>2. LocalType(r)'
      BY <1>1, <1>3, <1>5, <2>1 DEF LocalType, RequestLabels, RefundLabels, FieldsTyped
    <2>3. SessionInv(r)'
      BY <1>1, <1>3, <1>5, <2>1 DEF SessionInv, UnfundedInv, OpenInv, SettledInv, RefundInv, LedgerInv,
         TokenCovers, Covers, Held, HeldElsewhere, HeldUnlessUnmarked, UnmarkedInv, Owed,
         Playground, BySubscription,
         BeforeToken, BeforeFunding, Agreed, Reserving, AfterServing, FieldsTyped
    <2> QED BY <1>2, <2>2, <2>3, StepLemma
  <1>6. CASE AllWallet
    <2>1. /\ ses'[r] \in Session
          /\ ses'[r].fundingSettled = TRUE
          /\ ses'[r].settled = TRUE
          /\ UNCHANGED <<ses[r].funding, ses[r].effective,
                        ses[r].preConsumed, ses[r].tokenConsumed,
                        ses[r].walletConsumed, ses[r].subPre, ses[r].extra,
                        ses[r].refunded, ses[r].attempts>>
      BY <1>1, <1>3, <1>6 DEF LocalType, FieldsTyped, Session
    <2>2. /\ paid'[r] \in Charge
          /\ paid'[r].wallet = paid[r].wallet + (req[r].actual - ses[r].preConsumed)
          /\ UNCHANGED <<paid[r].token, paid[r].sub, paid[r].unmarked>>
      BY <1>1, <1>3, <1>6 DEF LocalType, FieldsTyped, Charge
    <2>3. LocalType(r)'
      BY <1>1, <1>3, <1>6, <2>1, <2>2 DEF LocalType, RequestLabels, RefundLabels, FieldsTyped
    <2>4. SessionInv(r)'
      BY <1>1, <1>3, <1>6, <2>1, <2>2 DEF SessionInv, UnfundedInv, OpenInv, SettledInv, RefundInv,
         LedgerInv,
         TokenCovers, Covers, Held, HeldElsewhere, HeldUnlessUnmarked, UnmarkedInv, Owed,
         Playground, BySubscription,
         BeforeToken, BeforeFunding, Agreed, Reserving, AfterServing, FieldsTyped
    <2> QED BY <1>2, <2>3, <2>4, StepLemma
  <1>7. CASE WalletFirst
    <2>1. /\ ses'[r] \in Session
          /\ ses'[r].fundingSettled = TRUE
          /\ UNCHANGED <<ses[r].funding, ses[r].effective,
                        ses[r].preConsumed, ses[r].tokenConsumed,
                        ses[r].walletConsumed, ses[r].subPre, ses[r].extra,
                        ses[r].settled, ses[r].refunded, ses[r].attempts>>
      BY <1>1, <1>3, <1>7 DEF LocalType, FieldsTyped, Session
    <2>2. /\ paid'[r] \in Charge
          /\ paid'[r].wallet = paid[r].wallet + (req[r].actual - ses[r].preConsumed)
          /\ UNCHANGED <<paid[r].token, paid[r].sub, paid[r].unmarked>>
      BY <1>1, <1>3, <1>7 DEF LocalType, FieldsTyped, Charge
    <2>3. LocalType(r)'
      BY <1>1, <1>3, <1>7, <2>1, <2>2 DEF LocalType, RequestLabels, RefundLabels, FieldsTyped
    <2>4. SessionInv(r)'
      BY <1>1, <1>3, <1>7, <2>1, <2>2 DEF SessionInv, UnfundedInv, OpenInv, SettledInv, RefundInv,
         LedgerInv,
         TokenCovers, Covers, Held, HeldElsewhere, HeldUnlessUnmarked, UnmarkedInv, Owed,
         Playground, BySubscription,
         BeforeToken, BeforeFunding, Agreed, Reserving, AfterServing, FieldsTyped
    <2> QED BY <1>2, <2>3, <2>4, StepLemma
  <1>8. CASE AllSubscription
    <2>1. /\ ses'[r] \in Session
          /\ ses'[r].fundingSettled = TRUE
          /\ ses'[r].settled = TRUE
          /\ UNCHANGED <<ses[r].funding, ses[r].effective,
                        ses[r].preConsumed, ses[r].tokenConsumed,
                        ses[r].walletConsumed, ses[r].subPre, ses[r].extra,
                        ses[r].refunded, ses[r].attempts>>
      BY <1>1, <1>3, <1>8 DEF LocalType, FieldsTyped, Session
    <2>2. /\ paid'[r] \in Charge
          /\ paid'[r].sub = paid[r].sub + (req[r].actual - ses[r].preConsumed)
          /\ UNCHANGED <<paid[r].wallet, paid[r].token, paid[r].unmarked>>
      BY <1>1, <1>3, <1>8 DEF LocalType, FieldsTyped, Charge
    <2>3. LocalType(r)'
      BY <1>1, <1>3, <1>8, <2>1, <2>2 DEF LocalType, RequestLabels, RefundLabels, FieldsTyped, Larger
    <2>4. SessionInv(r)'
      BY <1>1, <1>3, <1>8, <2>1, <2>2 DEF SessionInv, UnfundedInv, OpenInv, SettledInv, RefundInv,
         LedgerInv,
         TokenCovers, Covers, Held, HeldElsewhere, HeldUnlessUnmarked, UnmarkedInv, Owed,
         Playground, BySubscription,
         BeforeToken, BeforeFunding, Agreed, Reserving, AfterServing, FieldsTyped
    <2> QED BY <1>2, <2>3, <2>4, StepLemma
  <1>9. CASE SubscriptionFirst
    <2>1. /\ ses'[r] \in Session
          /\ ses'[r].fundingSettled = TRUE
          /\ UNCHANGED <<ses[r].funding, ses[r].effective,
                        ses[r].preConsumed, ses[r].tokenConsumed,
                        ses[r].walletConsumed, ses[r].subPre, ses[r].extra,
                        ses[r].settled, ses[r].refunded, ses[r].attempts>>
      BY <1>1, <1>3, <1>9 DEF LocalType, FieldsTyped, Session
    <2>2. /\ paid'[r] \in Charge
          /\ paid'[r].sub = paid[r].sub + (req[r].actual - ses[r].preConsumed)
          /\ UNCHANGED <<paid[r].wallet, paid[r].token, paid[r].unmarked>>
      BY <1>1, <1>3, <1>9 DEF LocalType, FieldsTyped, Charge
    <2>3. LocalType(r)'
      BY <1>1, <1>3, <1>9, <2>1, <2>2 DEF LocalType, RequestLabels, RefundLabels, FieldsTyped, Larger
    <2>4. SessionInv(r)'
      BY <1>1, <1>3, <1>9, <2>1, <2>2 DEF SessionInv, UnfundedInv, OpenInv, SettledInv, RefundInv,
         LedgerInv,
         TokenCovers, Covers, Held, HeldElsewhere, HeldUnlessUnmarked, UnmarkedInv, Owed,
         Playground, BySubscription,
         BeforeToken, BeforeFunding, Agreed, Reserving, AfterServing, FieldsTyped
    <2> QED BY <1>2, <2>3, <2>4, StepLemma
  <1>10. CASE Lost
    <2>1. LocalType(r)'
      BY <1>1, <1>3, <1>10 DEF LocalType, RequestLabels, RefundLabels, FieldsTyped
    <2>2. SessionInv(r)'
      BY <1>1, <1>3, <1>10 DEF SessionInv, UnfundedInv, OpenInv, SettledInv, RefundInv, LedgerInv,
         TokenCovers, Covers, Held, HeldElsewhere, HeldUnlessUnmarked, UnmarkedInv, Owed,
         Playground, BySubscription,
         BeforeToken, BeforeFunding, Agreed, Reserving, AfterServing, FieldsTyped
    <2> QED BY <1>2, <2>1, <2>2, StepLemma
  <1> QED BY <1>4, <1>5, <1>6, <1>7, <1>8, <1>9, <1>10

(* Settle, second commit. *)
LEMMA SettleTokenStep ==
    ASSUME TypeOK, BillingInv, NEW r \in Requests, SettleToken(r)
    PROVE  TypeOK' /\ BillingInv'
  <1>1. LocalType(r) /\ SessionInv(r) /\ FieldsTyped(r)
    BY LocalLemma
  <1>2. OnlyAt(r)
    BY DEF TypeOK, SettleToken, WriteToken, MarkFailed, SettleDelta, Goto,
      SetSession, NoWrite, database, OnlyAt
  <1> DEFINE
        Adjusted ==
           /\ pc'[r] = "done"
           /\ ses'[r] = [ses[r] EXCEPT !.settled = TRUE]
           /\ paid'[r] = [paid[r] EXCEPT !.token = paid[r].token + (req[r].actual - ses[r].preConsumed)]
           /\ tokenRemain' = tokenRemain - (req[r].actual - ses[r].preConsumed)
           /\ UNCHANGED <<failed[r]>>
        Lost ==
           /\ pc'[r] = "done"
           /\ ses'[r] = [ses[r] EXCEPT !.settled = TRUE]
           /\ failed'[r] = TRUE
           /\ UNCHANGED <<paid[r], tokenRemain>>
  <1>3. /\ pc[r] = "settleToken"
        /\ pc'[r] = "done"
        /\ UNCHANGED <<refundPc[r], req[r], record[r], fee[r], userQuota,
                        subUsed>>
    BY DEF TypeOK, SettleToken, WriteToken, MarkFailed, SettleDelta, Goto,
      SetSession, NoWrite, database
  <1>4. Adjusted \/ Lost
    BY <1>1, <1>3 DEF TypeOK, SettleToken, WriteToken, MarkFailed, SettleDelta, Goto,
      SetSession, NoWrite, database, FieldsTyped
  <1>5. CASE Adjusted
    <2>1. /\ ses'[r] \in Session
          /\ ses'[r].settled = TRUE
          /\ UNCHANGED <<ses[r].funding, ses[r].effective,
                        ses[r].preConsumed, ses[r].tokenConsumed,
                        ses[r].walletConsumed, ses[r].subPre, ses[r].extra,
                        ses[r].fundingSettled, ses[r].refunded,
                        ses[r].attempts>>
      BY <1>1, <1>3, <1>5 DEF LocalType, FieldsTyped, Session
    <2>2. /\ paid'[r] \in Charge
          /\ paid'[r].token = paid[r].token + (req[r].actual - ses[r].preConsumed)
          /\ UNCHANGED <<paid[r].wallet, paid[r].sub, paid[r].unmarked>>
      BY <1>1, <1>3, <1>5 DEF LocalType, FieldsTyped, Charge
    <2>3. LocalType(r)'
      BY <1>1, <1>3, <1>5, <2>1, <2>2 DEF LocalType, RequestLabels, RefundLabels, FieldsTyped
    <2>4. SessionInv(r)'
      BY <1>1, <1>3, <1>5, <2>1, <2>2 DEF SessionInv, UnfundedInv, OpenInv, SettledInv, RefundInv,
         LedgerInv,
         TokenCovers, Covers, Held, HeldElsewhere, HeldUnlessUnmarked, UnmarkedInv, Owed,
         Playground, BySubscription,
         BeforeToken, BeforeFunding, Agreed, Reserving, AfterServing, FieldsTyped
    <2> QED BY <1>2, <2>3, <2>4, StepLemma
  <1>6. CASE Lost
    <2>1. /\ ses'[r] \in Session
          /\ ses'[r].settled = TRUE
          /\ UNCHANGED <<ses[r].funding, ses[r].effective,
                        ses[r].preConsumed, ses[r].tokenConsumed,
                        ses[r].walletConsumed, ses[r].subPre, ses[r].extra,
                        ses[r].fundingSettled, ses[r].refunded,
                        ses[r].attempts>>
      BY <1>1, <1>3, <1>6 DEF LocalType, FieldsTyped, Session
    <2>2. LocalType(r)'
      BY <1>1, <1>3, <1>6, <2>1 DEF LocalType, RequestLabels, RefundLabels, FieldsTyped
    <2>3. SessionInv(r)'
      BY <1>1, <1>3, <1>6, <2>1 DEF SessionInv, UnfundedInv, OpenInv, SettledInv, RefundInv, LedgerInv,
         TokenCovers, Covers, Held, HeldElsewhere, HeldUnlessUnmarked, UnmarkedInv, Owed,
         Playground, BySubscription,
         BeforeToken, BeforeFunding, Agreed, Reserving, AfterServing, FieldsTyped
    <2> QED BY <1>2, <2>2, <2>3, StepLemma
  <1> QED BY <1>4, <1>5, <1>6

(* Refund hands what is held to the goroutine, or there is nothing to give back. *)
LEMMA RefundStartStep ==
    ASSUME TypeOK, BillingInv, NEW r \in Requests, Refund(r)
    PROVE  TypeOK' /\ BillingInv'
  <1>1. LocalType(r) /\ SessionInv(r) /\ FieldsTyped(r)
    BY LocalLemma
  <1>2. OnlyAt(r)
    BY DEF TypeOK, Refund, Goto, GotoRefund, SetSession, NoWrite, database,
      OnlyAt
  <1> DEFINE
        Started ==
           /\ NeedsRefund(ses[r])
           /\ pc'[r] \in {"fee", "done"}
           /\ refundPc'[r] = "funding"
           /\ ses'[r] = [ses[r] EXCEPT !.refunded = TRUE]
        Nothing ==
           /\ ~NeedsRefund(ses[r])
           /\ pc'[r] \in {"fee", "done"}
           /\ UNCHANGED <<refundPc[r], ses[r]>>
  <1>3. /\ pc[r] = "refund"
        /\ UNCHANGED <<req[r], record[r], paid[r], fee[r], failed[r],
                        userQuota, tokenRemain, subUsed>>
    BY DEF TypeOK, Refund, Goto, GotoRefund, SetSession, NoWrite, database
  <1>4. Started \/ Nothing
    BY <1>1, <1>3 DEF TypeOK, Refund, Goto, GotoRefund, SetSession, NoWrite, database,
      FieldsTyped
  <1>7. refundPc[r] = "idle" /\ ses[r].attempts = 0 /\ paid[r].unmarked = 0
    BY <1>1, <1>3 DEF SessionInv, RefundInv, LedgerInv, UnmarkedInv, AfterServing
  <1>5. CASE Started
    <2>1. /\ ses'[r] \in Session
          /\ ses'[r].refunded = TRUE
          /\ UNCHANGED <<ses[r].funding, ses[r].effective,
                        ses[r].preConsumed, ses[r].tokenConsumed,
                        ses[r].walletConsumed, ses[r].subPre, ses[r].extra,
                        ses[r].fundingSettled, ses[r].settled,
                        ses[r].attempts>>
      BY <1>1, <1>3, <1>5 DEF LocalType, FieldsTyped, Session
    <2>2. LocalType(r)'
      BY <1>1, <1>3, <1>5, <2>1 DEF LocalType, RequestLabels, RefundLabels, FieldsTyped
    <2>3. SessionInv(r)'
      BY <1>1, <1>3, <1>7, <1>5, <2>1 DEF SessionInv, UnfundedInv, OpenInv, SettledInv, RefundInv,
         LedgerInv,
         TokenCovers, Covers, Held, HeldElsewhere, HeldUnlessUnmarked, UnmarkedInv, Owed,
         Playground, BySubscription,
         BeforeToken, BeforeFunding, Agreed, Reserving, AfterServing, FieldsTyped, MaxAttempts
    <2> QED BY <1>2, <2>2, <2>3, StepLemma
  <1>6. CASE Nothing
    <2>1. LocalType(r)'
      BY <1>1, <1>3, <1>6 DEF LocalType, RequestLabels, RefundLabels, FieldsTyped
    <2>2. SessionInv(r)'
      <3>1. UnfundedInv(r)' /\ OpenInv(r)'
        BY <1>1, <1>3, <1>7, <1>6 DEF SessionInv, UnfundedInv, OpenInv, SettledInv,
           RefundInv, LedgerInv, AfterServing, BeforeToken, BeforeFunding, Agreed, Reserving, NeedsRefund
      <3>2. SettledInv(r)'
        BY <1>1, <1>3, <1>7, <1>6 DEF SessionInv, OpenInv, SettledInv, RefundInv, LedgerInv,
           TokenCovers, Covers, Held, HeldElsewhere, HeldUnlessUnmarked,
           Owed, Playground, BySubscription, BeforeToken, BeforeFunding, Agreed, Reserving,
           AfterServing, FieldsTyped, NeedsRefund
      <3>3. RefundInv(r)'
        BY <1>1, <1>3, <1>7, <1>6 DEF SessionInv, OpenInv, RefundInv, LedgerInv, UnmarkedInv,
           TokenCovers, Covers, Held, HeldElsewhere, HeldUnlessUnmarked,
           Owed, Playground, BySubscription, BeforeToken, BeforeFunding, Agreed, Reserving,
           AfterServing, FieldsTyped, NeedsRefund
      <3>4. LedgerInv(r)'
        BY <1>1, <1>3, <1>7, <1>6 DEF SessionInv, OpenInv, RefundInv, LedgerInv, UnmarkedInv,
           TokenCovers, Covers, Held, HeldElsewhere, HeldUnlessUnmarked,
           Owed, Playground, BySubscription, BeforeToken, BeforeFunding, Agreed, Reserving,
           AfterServing, FieldsTyped, NeedsRefund
      <3> QED BY <3>1, <3>2, <3>3, <3>4 DEF SessionInv
    <2> QED BY <1>2, <2>1, <2>2, StepLemma
  <1> QED BY <1>4, <1>5, <1>6

(* WalletFunding.Refund. *)
LEMMA RefundWalletStep ==
    ASSUME TypeOK, BillingInv, NEW r \in Requests, RefundWallet(r)
    PROVE  TypeOK' /\ BillingInv'
  <1>1. LocalType(r) /\ SessionInv(r) /\ FieldsTyped(r)
    BY LocalLemma
  <1>2. OnlyAt(r)
    BY DEF TypeOK, RefundWallet, WriteWallet, MarkFailed, GotoRefund, NoWrite,
      database, OnlyAt
  <1> DEFINE
        Returned ==
           /\ paid'[r] = [paid[r] EXCEPT !.wallet = paid[r].wallet + (- ses[r].walletConsumed)]
           /\ userQuota' = userQuota - (- ses[r].walletConsumed)
           /\ UNCHANGED <<failed[r]>>
        Lost ==
           /\ failed'[r] = TRUE
           /\ UNCHANGED <<paid[r], userQuota>>
  <1>3. /\ refundPc[r] = "funding"
        /\ ~BySubscription(r)
        /\ refundPc'[r] = AfterFunding(r)
        /\ UNCHANGED <<pc[r], req[r], ses[r], record[r], fee[r],
                        tokenRemain, subUsed>>
    BY DEF TypeOK, RefundWallet, WriteWallet, MarkFailed, GotoRefund, NoWrite,
      database
  <1>4. Returned \/ Lost
    BY <1>1, <1>3 DEF TypeOK, RefundWallet, WriteWallet, MarkFailed, GotoRefund, NoWrite,
      database, FieldsTyped
  <1>7. ses[r].attempts = 0 /\ paid[r].unmarked = 0
    BY <1>1, <1>3 DEF SessionInv, LedgerInv, UnmarkedInv
  <1>5. CASE Returned
    <2>1. /\ paid'[r] \in Charge
          /\ paid'[r].wallet = paid[r].wallet + (- ses[r].walletConsumed)
          /\ UNCHANGED <<paid[r].token, paid[r].sub, paid[r].unmarked>>
      BY <1>1, <1>3, <1>5 DEF LocalType, FieldsTyped, Charge
    <2>2. LocalType(r)'
      BY <1>1, <1>3, <1>5, <2>1 DEF LocalType, RequestLabels, RefundLabels, FieldsTyped,
         AfterFunding, AfterExtra
    <2>3. SessionInv(r)'
      <3>1. UnfundedInv(r)' /\ OpenInv(r)'
        BY <1>1, <1>3, <1>7, <1>5, <2>1 DEF SessionInv, UnfundedInv, OpenInv, SettledInv,
           RefundInv, LedgerInv, AfterServing, BeforeToken, BeforeFunding, Agreed, Reserving,
           AfterFunding, AfterExtra
      <3>2. SettledInv(r)'
        BY <1>1, <1>3, <1>7, <1>5, <2>1 DEF SessionInv, OpenInv, SettledInv, RefundInv, LedgerInv,
           TokenCovers, Covers, Held, HeldElsewhere, HeldUnlessUnmarked,
           Owed, Playground, BySubscription, BeforeToken, BeforeFunding, Agreed, Reserving,
           AfterServing, FieldsTyped, AfterFunding, AfterExtra
      <3>3. RefundInv(r)'
        <4>1. Held(r)' = 0 /\ HeldUnlessUnmarked(r)' = 0
          BY <1>1, <1>3, <1>7, <2>1 DEF SessionInv, RefundInv, Held, HeldUnlessUnmarked,
             BySubscription, FieldsTyped
        <4>2. /\ refundPc'[r] \in {"token", "done"}
              /\ refundPc'[r] = "token" => ~Playground(r)
              /\ refundPc'[r] = "done" => Playground(r) \/ ses[r].tokenConsumed = 0
          BY <1>1, <1>3 DEF AfterFunding, AfterExtra, FieldsTyped
        <4>3. TokenCovers(r, ses[r].tokenConsumed)'
          BY <1>1, <1>3, <1>5, <2>1 DEF SessionInv, RefundInv, TokenCovers, Covers, Playground
        <4>4. refundPc'[r] = "done" => TokenCovers(r, 0)'
          BY <1>3, <4>2, <4>3 DEF TokenCovers, Playground
        <4> QED
          BY <1>1, <1>3, <4>1, <4>2, <4>3, <4>4 DEF SessionInv, RefundInv, Covers, Playground
      <3>4. LedgerInv(r)'
        BY <1>1, <1>3, <1>7, <1>5, <2>1 DEF SessionInv, OpenInv, RefundInv, LedgerInv, UnmarkedInv,
           TokenCovers, Covers, Held, HeldElsewhere, HeldUnlessUnmarked,
           Owed, Playground, BySubscription, BeforeToken, BeforeFunding, Agreed, Reserving,
           AfterServing, FieldsTyped, AfterFunding, AfterExtra
      <3> QED BY <3>1, <3>2, <3>3, <3>4 DEF SessionInv
    <2> QED BY <1>2, <2>2, <2>3, StepLemma
  <1>6. CASE Lost
    <2>1. LocalType(r)'
      BY <1>1, <1>3, <1>6 DEF LocalType, RequestLabels, RefundLabels, FieldsTyped, AfterFunding,
         AfterExtra
    <2>2. SessionInv(r)'
      BY <1>1, <1>3, <1>7, <1>6 DEF SessionInv, UnfundedInv, OpenInv, SettledInv, RefundInv, LedgerInv,
         TokenCovers, Covers, Held, HeldElsewhere, HeldUnlessUnmarked, UnmarkedInv, Owed,
         Playground, BySubscription,
         BeforeToken, BeforeFunding, Agreed, Reserving, AfterServing, FieldsTyped, AfterFunding,
         AfterExtra
    <2> QED BY <1>2, <2>1, <2>2, StepLemma
  <1> QED BY <1>4, <1>5, <1>6

(* RefundSubscriptionPreConsume, up to the nested commit. *)
LEMMA RefundSubscriptionStep ==
    ASSUME TypeOK, BillingInv, NEW r \in Requests, RefundSubscription(r)
    PROVE  TypeOK' /\ BillingInv'
  <1>1. LocalType(r) /\ SessionInv(r) /\ FieldsTyped(r)
    BY LocalLemma
  <1>2. OnlyAt(r)
    BY DEF TypeOK, RefundSubscription, WriteSub, RefundAttemptFailed, MarkFailed,
      GotoRefund, SetSession, NoWrite, database, OnlyAt
  <1> DEFINE
        Already ==
           /\ record[r] = "refunded"
           /\ refundPc'[r] = AfterFunding(r)
           /\ UNCHANGED <<ses[r], paid[r], failed[r], subUsed>>
        Returned ==
           /\ record[r] # "refunded"
           /\ refundPc'[r] = "record"
           /\ paid'[r] = [paid[r] EXCEPT !.sub = paid[r].sub + (- ses[r].subPre)]
           /\ subUsed' = Larger(subUsed + (- ses[r].subPre), 0)
           /\ UNCHANGED <<ses[r], failed[r]>>
        Retried ==
           /\ record[r] # "refunded"
           /\ ses[r].attempts + 1 < MaxAttempts
           /\ refundPc'[r] = "funding"
           /\ ses'[r] = [ses[r] EXCEPT !.attempts = ses[r].attempts + 1]
           /\ UNCHANGED <<paid[r], failed[r], subUsed>>
        GivenUp ==
           /\ record[r] # "refunded"
           /\ ses[r].attempts + 1 >= MaxAttempts
           /\ refundPc'[r] = AfterFunding(r)
           /\ ses'[r] = [ses[r] EXCEPT !.attempts = ses[r].attempts + 1]
           /\ failed'[r] = TRUE
           /\ UNCHANGED <<paid[r], subUsed>>
  <1>3. /\ refundPc[r] = "funding"
        /\ BySubscription(r)
        /\ UNCHANGED <<pc[r], req[r], record[r], fee[r], userQuota,
                        tokenRemain>>
    BY DEF TypeOK, RefundSubscription, WriteSub, RefundAttemptFailed, MarkFailed,
      GotoRefund, SetSession, NoWrite, database
  <1>4. Already \/ Returned \/ Retried \/ GivenUp
    <2>1. CASE record[r] = "refunded"
      BY <1>1, <2>1 DEF TypeOK, RefundSubscription, GotoRefund, NoWrite, database
    <2>2. CASE RefundAttemptFailed(r) /\ record[r] # "refunded" /\ NoWrite
      BY <1>1, <2>2 DEF TypeOK, RefundAttemptFailed, FieldsTyped, MaxAttempts, MarkFailed,
         GotoRefund, SetSession, NoWrite, database
    <2>3. CASE ~(RefundAttemptFailed(r) /\ NoWrite) /\ record[r] # "refunded"
      BY <1>3, <2>3 DEF TypeOK, RefundSubscription, WriteSub, GotoRefund
    <2> QED BY <2>1, <2>2, <2>3 DEF RefundSubscription
  <1>5. CASE Already
    <2>1. LocalType(r)'
      BY <1>1, <1>3, <1>5 DEF LocalType, RequestLabels, RefundLabels, FieldsTyped, AfterFunding,
         AfterExtra
    <2>2. SessionInv(r)'
      BY <1>1, <1>3, <1>5 DEF SessionInv, UnfundedInv, OpenInv, SettledInv, RefundInv, LedgerInv,
         TokenCovers, Covers, Held, HeldElsewhere, HeldUnlessUnmarked, UnmarkedInv, Owed,
         Playground, BySubscription,
         BeforeToken, BeforeFunding, Agreed, Reserving, AfterServing, FieldsTyped, AfterFunding,
         AfterExtra, MaxAttempts
    <2> QED BY <1>2, <2>1, <2>2, StepLemma
  <1>6. CASE Returned
    <2>1. /\ paid'[r] \in Charge
          /\ paid'[r].sub = paid[r].sub + (- ses[r].subPre)
          /\ UNCHANGED <<paid[r].wallet, paid[r].token, paid[r].unmarked>>
      BY <1>1, <1>3, <1>6 DEF LocalType, FieldsTyped, Charge
    <2>2. LocalType(r)'
      BY <1>1, <1>3, <1>6, <2>1 DEF LocalType, RequestLabels, RefundLabels, FieldsTyped,
         AfterFunding, AfterExtra, Larger
    <2>3. SessionInv(r)'
      <3>1. UnfundedInv(r)'
        BY <1>1, <1>3, <1>6, <2>1 DEF SessionInv, UnfundedInv, OpenInv, SettledInv, RefundInv, LedgerInv,
         TokenCovers, Covers, Held, HeldElsewhere, HeldUnlessUnmarked, UnmarkedInv, Owed,
         Playground, BySubscription,
         BeforeToken, BeforeFunding, Agreed, Reserving, AfterServing, FieldsTyped, AfterFunding,
         AfterExtra, MaxAttempts
      <3>2. OpenInv(r)'
        BY <1>1, <1>3, <1>6, <2>1 DEF SessionInv, UnfundedInv, OpenInv, SettledInv, RefundInv, LedgerInv,
         TokenCovers, Covers, Held, HeldElsewhere, HeldUnlessUnmarked, UnmarkedInv, Owed,
         Playground, BySubscription,
         BeforeToken, BeforeFunding, Agreed, Reserving, AfterServing, FieldsTyped, AfterFunding,
         AfterExtra, MaxAttempts
      <3>3. SettledInv(r)'
        BY <1>1, <1>3, <1>6, <2>1 DEF SessionInv, UnfundedInv, OpenInv, SettledInv, RefundInv, LedgerInv,
         TokenCovers, Covers, Held, HeldElsewhere, HeldUnlessUnmarked, UnmarkedInv, Owed,
         Playground, BySubscription,
         BeforeToken, BeforeFunding, Agreed, Reserving, AfterServing, FieldsTyped, AfterFunding,
         AfterExtra, MaxAttempts
      <3>4. RefundInv(r)'
        BY <1>1, <1>3, <1>6, <2>1 DEF SessionInv, UnfundedInv, OpenInv, SettledInv, RefundInv, LedgerInv,
         TokenCovers, Covers, Held, HeldElsewhere, HeldUnlessUnmarked, UnmarkedInv, Owed,
         Playground, BySubscription,
         BeforeToken, BeforeFunding, Agreed, Reserving, AfterServing, FieldsTyped, AfterFunding,
         AfterExtra, MaxAttempts
      <3>5. LedgerInv(r)'
        BY <1>1, <1>3, <1>6, <2>1 DEF SessionInv, UnfundedInv, OpenInv, SettledInv, RefundInv, LedgerInv,
         TokenCovers, Covers, Held, HeldElsewhere, HeldUnlessUnmarked, UnmarkedInv, Owed,
         Playground, BySubscription,
         BeforeToken, BeforeFunding, Agreed, Reserving, AfterServing, FieldsTyped, AfterFunding,
         AfterExtra, MaxAttempts
      <3> QED BY <3>1, <3>2, <3>3, <3>4, <3>5 DEF SessionInv
    <2> QED BY <1>2, <2>2, <2>3, StepLemma
  <1>7. CASE Retried
    <2>1. /\ ses'[r] \in Session
          /\ ses'[r].attempts = ses[r].attempts + 1
          /\ UNCHANGED <<ses[r].funding, ses[r].effective,
                        ses[r].preConsumed, ses[r].tokenConsumed,
                        ses[r].walletConsumed, ses[r].subPre, ses[r].extra,
                        ses[r].fundingSettled, ses[r].settled,
                        ses[r].refunded>>
      BY <1>1, <1>3, <1>7 DEF LocalType, FieldsTyped, Session, MaxAttempts
    <2>2. LocalType(r)'
      BY <1>1, <1>3, <1>7, <2>1 DEF LocalType, RequestLabels, RefundLabels, FieldsTyped,
         AfterFunding, AfterExtra
    <2>3. SessionInv(r)'
      BY <1>1, <1>3, <1>7, <2>1 DEF SessionInv, UnfundedInv, OpenInv, SettledInv, RefundInv, LedgerInv,
         TokenCovers, Covers, Held, HeldElsewhere, HeldUnlessUnmarked, UnmarkedInv, Owed,
         Playground, BySubscription,
         BeforeToken, BeforeFunding, Agreed, Reserving, AfterServing, FieldsTyped, AfterFunding,
         AfterExtra, MaxAttempts
    <2> QED BY <1>2, <2>2, <2>3, StepLemma
  <1>8. CASE GivenUp
    <2>1. /\ ses'[r] \in Session
          /\ ses'[r].attempts = ses[r].attempts + 1
          /\ UNCHANGED <<ses[r].funding, ses[r].effective,
                        ses[r].preConsumed, ses[r].tokenConsumed,
                        ses[r].walletConsumed, ses[r].subPre, ses[r].extra,
                        ses[r].fundingSettled, ses[r].settled,
                        ses[r].refunded>>
      BY <1>1, <1>3, <1>8 DEF LocalType, FieldsTyped, Session, SessionInv, RefundInv,
         BySubscription, MaxAttempts
    <2>2. LocalType(r)'
      BY <1>1, <1>3, <1>8, <2>1 DEF LocalType, RequestLabels, RefundLabels, FieldsTyped,
         AfterFunding, AfterExtra
    <2>3. SessionInv(r)'
      BY <1>1, <1>3, <1>8, <2>1 DEF SessionInv, UnfundedInv, OpenInv, SettledInv, RefundInv, LedgerInv,
         TokenCovers, Covers, Held, HeldElsewhere, HeldUnlessUnmarked, UnmarkedInv, Owed,
         Playground, BySubscription,
         BeforeToken, BeforeFunding, Agreed, Reserving, AfterServing, FieldsTyped, AfterFunding,
         AfterExtra, MaxAttempts
    <2> QED BY <1>2, <2>2, <2>3, StepLemma
  <1> QED BY <1>4, <1>5, <1>6, <1>7, <1>8

(* The outer commit of RefundSubscriptionPreConsume. *)
LEMMA RefundRecordStep ==
    ASSUME TypeOK, BillingInv, NEW r \in Requests, RefundRecord(r)
    PROVE  TypeOK' /\ BillingInv'
  <1>1. LocalType(r) /\ SessionInv(r) /\ FieldsTyped(r)
    BY LocalLemma
  <1>2. OnlyAt(r)
    BY DEF TypeOK, RefundRecord, RefundAttemptFailed, MarkFailed, GotoRefund,
      SetSession, MayFail, NoWrite, database, OnlyAt
  <1> DEFINE
        Marked ==
           /\ refundPc'[r] = AfterFunding(r)
           /\ record'[r] = "refunded"
           /\ UNCHANGED <<ses[r], paid[r], failed[r]>>
        Retried ==
           /\ ses[r].attempts + 1 < MaxAttempts
           /\ refundPc'[r] = "funding"
           /\ ses'[r] = [ses[r] EXCEPT !.attempts = ses[r].attempts + 1]
           /\ UNCHANGED <<failed[r]>>
        GivenUp ==
           /\ ses[r].attempts + 1 >= MaxAttempts
           /\ refundPc'[r] = AfterFunding(r)
           /\ ses'[r] = [ses[r] EXCEPT !.attempts = ses[r].attempts + 1]
           /\ failed'[r] = TRUE
        Unacknowledged == record'[r] = "refunded" /\ UNCHANGED paid[r]
        Unmarked ==
           /\ UNCHANGED record[r]
           /\ "record" \in Failing
           /\ paid'[r] = [paid[r] EXCEPT !.unmarked = paid[r].unmarked + ses[r].subPre]
  <1>3. /\ refundPc[r] = "record"
        /\ UNCHANGED <<pc[r], req[r], fee[r], userQuota, tokenRemain, subUsed>>
    BY DEF TypeOK, RefundRecord, RefundAttemptFailed, MarkFailed, GotoRefund,
      SetSession, MayFail, NoWrite, database
  <1>4. /\ paid'[r] \in Charge /\ record'[r] \in {record[r], "refunded"}
        /\ Unmarked => /\ UNCHANGED <<paid[r].wallet, paid[r].token, paid[r].sub>>
                       /\ paid'[r].unmarked = paid[r].unmarked + ses[r].subPre
    BY <1>1 DEF RefundRecord, LocalType, FieldsTyped, Charge, TypeOK
  <1>5. Marked \/ ((Retried \/ GivenUp) /\ (Unacknowledged \/ Unmarked))
    <2>1. CASE RefundAttemptFailed(r) /\ (Unacknowledged \/ Unmarked)
      BY <1>1, <2>1 DEF TypeOK, RefundAttemptFailed, FieldsTyped, MaxAttempts, MarkFailed,
         GotoRefund, SetSession
    <2>2. CASE ~(RefundAttemptFailed(r) /\ (Unacknowledged \/ Unmarked))
      BY <2>2 DEF TypeOK, RefundRecord, GotoRefund, MayFail
    <2> QED BY <2>1, <2>2
  <1>6. CASE Marked
    <2>1. LocalType(r)'
      BY <1>1, <1>3, <1>6 DEF LocalType, RequestLabels, RefundLabels, FieldsTyped,
         AfterFunding, AfterExtra
    <2>2. SessionInv(r)'
      BY <1>1, <1>3, <1>6 DEF SessionInv, UnfundedInv, OpenInv, SettledInv, RefundInv,
         LedgerInv, TokenCovers, Covers, Held, HeldElsewhere, HeldUnlessUnmarked, UnmarkedInv,
         Owed, Playground, BySubscription, BeforeToken, BeforeFunding, Agreed, Reserving,
         AfterServing, FieldsTyped, AfterFunding, AfterExtra, MaxAttempts
    <2> QED BY <1>2, <2>1, <2>2, StepLemma
  <1>7. CASE Retried /\ (Unacknowledged \/ Unmarked)
    <2>1. /\ ses'[r] \in Session
          /\ ses'[r].attempts = ses[r].attempts + 1
          /\ UNCHANGED <<ses[r].funding, ses[r].effective, ses[r].preConsumed,
                         ses[r].tokenConsumed, ses[r].walletConsumed, ses[r].subPre,
                         ses[r].extra, ses[r].fundingSettled, ses[r].settled,
                         ses[r].refunded>>
      BY <1>1, <1>3, <1>7 DEF LocalType, FieldsTyped, Session, SessionInv, RefundInv,
         BySubscription, MaxAttempts
    <2>2. LocalType(r)'
      BY <1>1, <1>3, <1>4, <1>7, <2>1 DEF LocalType, RequestLabels, RefundLabels,
         FieldsTyped, AfterFunding, AfterExtra
    <2>3. ses[r].attempts \in {0, 1, 2} /\ BySubscription(r)
      BY <1>1, <1>3 DEF SessionInv, RefundInv, FieldsTyped, MaxAttempts
    <2>4. ASSUME Unacknowledged PROVE SessionInv(r)'
      BY <1>1, <1>3, <1>7, <2>1, <2>3, <2>4 DEF SessionInv, UnfundedInv, OpenInv, SettledInv, RefundInv,
         LedgerInv, TokenCovers, Covers, Held, HeldElsewhere, HeldUnlessUnmarked, UnmarkedInv,
         Owed, Playground, BySubscription, BeforeToken, BeforeFunding, Agreed, Reserving,
         AfterServing, FieldsTyped, AfterFunding, AfterExtra, MaxAttempts
    <2>5. ASSUME Unmarked PROVE SessionInv(r)'
      <3>1. UnfundedInv(r)' /\ OpenInv(r)'
        BY <1>1, <1>3, <1>4, <1>7, <2>1, <2>3, <2>5 DEF SessionInv, UnfundedInv, OpenInv, SettledInv,
           RefundInv, LedgerInv, AfterServing, BeforeToken, BeforeFunding, Agreed, Reserving, MaxAttempts
      <3>2. SettledInv(r)'
        BY <1>1, <1>3, <1>4, <1>7, <2>1, <2>3, <2>5 DEF SessionInv, OpenInv, SettledInv, RefundInv,
           LedgerInv,
           TokenCovers, Covers, Held, HeldElsewhere, HeldUnlessUnmarked,
           Owed, Playground, BySubscription, BeforeToken, BeforeFunding, Agreed, Reserving,
           AfterServing, FieldsTyped, MaxAttempts
      <3>3. RefundInv(r)'
        <4>1. /\ HeldUnlessUnmarked(r)' = HeldUnlessUnmarked(r) + ses[r].subPre
              /\ Covers(r, HeldUnlessUnmarked(r), ses[r].extra)
              /\ HeldUnlessUnmarked(r) \in Int
          BY <1>1, <1>3, <1>4, <2>1, <2>3, <2>5 DEF SessionInv, RefundInv, Held, BySubscription,
             HeldUnlessUnmarked, FieldsTyped
        <4>2. record'[r] # "refunded" =>
                 Covers(r, HeldUnlessUnmarked(r), ses[r].extra + ses[r].subPre)'
          BY <1>1, <1>3, <1>7, <2>1, <4>1 DEF Covers, FieldsTyped
        <4>3. record'[r] # "refunded"
          BY <1>1, <1>3, <2>5 DEF SessionInv, RefundInv
        <4> QED
          BY <1>1, <1>3, <1>4, <1>7, <2>1, <2>3, <2>5, <4>2, <4>3 DEF SessionInv, RefundInv,
             TokenCovers, Covers, Playground, BySubscription, AfterServing, MaxAttempts,
             FieldsTyped
      <3>4. LedgerInv(r)'
        BY <1>1, <1>3, <1>4, <1>7, <2>1, <2>3, <2>5 DEF SessionInv, OpenInv, RefundInv, LedgerInv,
           UnmarkedInv,
           TokenCovers, Covers, Held, HeldElsewhere, HeldUnlessUnmarked,
           Owed, Playground, BySubscription, BeforeToken, BeforeFunding, Agreed, Reserving,
           AfterServing, FieldsTyped, MaxAttempts
      <3> QED BY <3>1, <3>2, <3>3, <3>4 DEF SessionInv
    <2> QED BY <1>2, <1>7, <2>2, <2>4, <2>5, StepLemma
  <1>8. CASE GivenUp /\ (Unacknowledged \/ Unmarked)
    <2>1. /\ ses'[r] \in Session
          /\ ses'[r].attempts = ses[r].attempts + 1
          /\ UNCHANGED <<ses[r].funding, ses[r].effective, ses[r].preConsumed,
                         ses[r].tokenConsumed, ses[r].walletConsumed, ses[r].subPre,
                         ses[r].extra, ses[r].fundingSettled, ses[r].settled,
                         ses[r].refunded>>
      BY <1>1, <1>3, <1>8 DEF LocalType, FieldsTyped, Session, SessionInv, RefundInv,
         BySubscription, MaxAttempts
    <2>2. LocalType(r)'
      BY <1>1, <1>3, <1>4, <1>8, <2>1 DEF LocalType, RequestLabels, RefundLabels,
         FieldsTyped, AfterFunding, AfterExtra
    <2>3. ses[r].attempts \in {0, 1, 2} /\ BySubscription(r)
      BY <1>1, <1>3 DEF SessionInv, RefundInv, FieldsTyped, MaxAttempts
    <2>4. ASSUME Unacknowledged PROVE SessionInv(r)'
      <3>1. UnfundedInv(r)' /\ OpenInv(r)' /\ SettledInv(r)'
        BY <1>1, <1>3, <1>4, <1>8, <2>1, <2>3, <2>4 DEF SessionInv, UnfundedInv, OpenInv, SettledInv,
           RefundInv, LedgerInv, AfterServing, BeforeToken, BeforeFunding, Agreed, Reserving,
           AfterFunding, AfterExtra
      <3>2. /\ HeldUnlessUnmarked(r)' = HeldUnlessUnmarked(r)
            /\ HeldUnlessUnmarked(r) >= ses[r].extra /\ HeldUnlessUnmarked(r) \in Int
            /\ Held(r)' = Held(r) /\ Held(r) >= ses[r].extra - 2 * ses[r].subPre
        BY <1>1, <1>3, <1>4, <1>8, <2>1, <2>3, <2>4 DEF SessionInv, RefundInv, LedgerInv,
           TokenCovers, Covers, Held, HeldElsewhere, HeldUnlessUnmarked,
           UnmarkedInv, Playground, BySubscription, AfterServing, FieldsTyped
      <3>3. /\ refundPc'[r] \in {"extra", "token", "done"}
            /\ refundPc'[r] # "extra" => ses[r].extra = 0
            /\ refundPc'[r] = "token" => ~Playground(r)
            /\ refundPc'[r] = "done" => Playground(r) \/ ses[r].tokenConsumed = 0
        BY <1>1, <1>8, <2>3 DEF AfterFunding, AfterExtra, FieldsTyped
      <3>4. TokenCovers(r, ses[r].tokenConsumed)'
        BY <1>1, <1>3, <1>4, <1>8, <2>1, <2>3, <2>4 DEF SessionInv, RefundInv, TokenCovers, Covers,
           Playground
      <3>5. refundPc'[r] = "done" => TokenCovers(r, 0)'
        BY <1>3, <2>1, <3>3, <3>4 DEF TokenCovers, Playground
      <3>6. RefundInv(r)'
        BY <1>1, <1>3, <1>4, <1>8, <2>1, <2>3, <2>4, <3>2, <3>3, <3>4, <3>5 DEF SessionInv,
           RefundInv, Covers, Playground, BySubscription, FieldsTyped
      <3>7. LedgerInv(r)'
        BY <1>1, <1>3, <1>4, <1>8, <2>1, <2>3, <2>4, <3>2, <3>3 DEF SessionInv, RefundInv, LedgerInv,
           UnmarkedInv, HeldElsewhere, BySubscription, AfterServing, FieldsTyped, MaxAttempts
      <3> QED BY <3>1, <3>6, <3>7 DEF SessionInv
    <2>5. ASSUME Unmarked PROVE SessionInv(r)'
      <3>1. UnfundedInv(r)' /\ OpenInv(r)' /\ SettledInv(r)'
        BY <1>1, <1>3, <1>4, <1>8, <2>1, <2>3, <2>5 DEF SessionInv, UnfundedInv, OpenInv, SettledInv,
           RefundInv, LedgerInv, AfterServing, BeforeToken, BeforeFunding, Agreed, Reserving,
           AfterFunding, AfterExtra
      <3>2. /\ HeldUnlessUnmarked(r)' = HeldUnlessUnmarked(r) + ses[r].subPre
            /\ HeldUnlessUnmarked(r) >= ses[r].extra /\ HeldUnlessUnmarked(r) \in Int
            /\ Held(r)' = Held(r) /\ Held(r) >= ses[r].extra - 2 * ses[r].subPre
        BY <1>1, <1>3, <1>4, <1>8, <2>1, <2>3, <2>5 DEF SessionInv, RefundInv, LedgerInv,
           TokenCovers, Covers, Held, HeldElsewhere, HeldUnlessUnmarked,
           UnmarkedInv, Playground, BySubscription, AfterServing, FieldsTyped
      <3>3. /\ refundPc'[r] \in {"extra", "token", "done"}
            /\ refundPc'[r] # "extra" => ses[r].extra = 0
            /\ refundPc'[r] = "token" => ~Playground(r)
            /\ refundPc'[r] = "done" => Playground(r) \/ ses[r].tokenConsumed = 0
        BY <1>1, <1>8, <2>3 DEF AfterFunding, AfterExtra, FieldsTyped
      <3>4. TokenCovers(r, ses[r].tokenConsumed)'
        BY <1>1, <1>3, <1>4, <1>8, <2>1, <2>3, <2>5 DEF SessionInv, RefundInv, TokenCovers, Covers,
           Playground
      <3>5. refundPc'[r] = "done" => TokenCovers(r, 0)'
        BY <1>3, <2>1, <3>3, <3>4 DEF TokenCovers, Playground
      <3>6. RefundInv(r)'
        BY <1>1, <1>3, <1>4, <1>8, <2>1, <2>3, <2>5, <3>2, <3>3, <3>4, <3>5 DEF SessionInv,
           RefundInv, Covers, Playground, BySubscription, FieldsTyped
      <3>7. LedgerInv(r)'
        BY <1>1, <1>3, <1>4, <1>8, <2>1, <2>3, <2>5, <3>2, <3>3 DEF SessionInv, RefundInv, LedgerInv,
           UnmarkedInv, HeldElsewhere, BySubscription, AfterServing, FieldsTyped, MaxAttempts
      <3> QED BY <3>1, <3>6, <3>7 DEF SessionInv
    <2> QED BY <1>2, <1>8, <2>2, <2>4, <2>5, StepLemma
  <1> QED BY <1>5, <1>6, <1>7, <1>8

(* What Reserve added to the subscription is given back. *)
LEMMA RefundExtraStep ==
    ASSUME TypeOK, BillingInv, NEW r \in Requests, RefundExtra(r)
    PROVE  TypeOK' /\ BillingInv'
  <1>1. LocalType(r) /\ SessionInv(r) /\ FieldsTyped(r)
    BY LocalLemma
  <1>2. OnlyAt(r)
    BY DEF TypeOK, RefundExtra, WriteSub, MarkFailed, GotoRefund, NoWrite,
      database, OnlyAt
  <1> DEFINE
        Returned ==
           /\ paid'[r] = [paid[r] EXCEPT !.sub = paid[r].sub + (- ses[r].extra)]
           /\ subUsed' = Larger(subUsed + (- ses[r].extra), 0)
           /\ UNCHANGED <<failed[r]>>
        Lost ==
           /\ failed'[r] = TRUE
           /\ UNCHANGED <<paid[r], subUsed>>
  <1>3. /\ refundPc[r] = "extra"
        /\ refundPc'[r] = AfterExtra(r)
        /\ UNCHANGED <<pc[r], req[r], ses[r], record[r], fee[r], userQuota,
                        tokenRemain>>
    BY DEF TypeOK, RefundExtra, WriteSub, MarkFailed, GotoRefund, NoWrite,
      database
  <1>4. Returned \/ Lost
    BY <1>1, <1>3 DEF TypeOK, RefundExtra, WriteSub, MarkFailed, GotoRefund, NoWrite,
      database, FieldsTyped
  <1>5. CASE Returned
    <2>1. /\ paid'[r] \in Charge
          /\ paid'[r].sub = paid[r].sub + (- ses[r].extra)
          /\ UNCHANGED <<paid[r].wallet, paid[r].token, paid[r].unmarked>>
      BY <1>1, <1>3, <1>5 DEF LocalType, FieldsTyped, Charge
    <2>2. LocalType(r)'
      BY <1>1, <1>3, <1>5, <2>1 DEF LocalType, RequestLabels, RefundLabels, FieldsTyped,
         AfterFunding, AfterExtra, Larger
    <2>3. SessionInv(r)'
      BY <1>1, <1>3, <1>5, <2>1 DEF SessionInv, UnfundedInv, OpenInv, SettledInv, RefundInv, LedgerInv,
         TokenCovers, Covers, Held, HeldElsewhere, HeldUnlessUnmarked, UnmarkedInv, Owed,
         Playground, BySubscription,
         BeforeToken, BeforeFunding, Agreed, Reserving, AfterServing, FieldsTyped, AfterFunding,
         AfterExtra, MaxAttempts
    <2> QED BY <1>2, <2>2, <2>3, StepLemma
  <1>6. CASE Lost
    <2>1. LocalType(r)'
      BY <1>1, <1>3, <1>6 DEF LocalType, RequestLabels, RefundLabels, FieldsTyped, AfterFunding,
         AfterExtra
    <2>2. SessionInv(r)'
      BY <1>1, <1>3, <1>6 DEF SessionInv, UnfundedInv, OpenInv, SettledInv, RefundInv, LedgerInv,
         TokenCovers, Covers, Held, HeldElsewhere, HeldUnlessUnmarked, UnmarkedInv, Owed,
         Playground, BySubscription,
         BeforeToken, BeforeFunding, Agreed, Reserving, AfterServing, FieldsTyped, AfterFunding,
         AfterExtra, MaxAttempts
    <2> QED BY <1>2, <2>1, <2>2, StepLemma
  <1> QED BY <1>4, <1>5, <1>6

(* The token's part of the refund. *)
LEMMA RefundTokenStep ==
    ASSUME TypeOK, BillingInv, NEW r \in Requests, RefundToken(r)
    PROVE  TypeOK' /\ BillingInv'
  <1>1. LocalType(r) /\ SessionInv(r) /\ FieldsTyped(r)
    BY LocalLemma
  <1>2. OnlyAt(r)
    BY DEF TypeOK, RefundToken, WriteToken, MarkFailed, GotoRefund, NoWrite,
      database, OnlyAt
  <1> DEFINE
        Returned ==
           /\ paid'[r] = [paid[r] EXCEPT !.token = paid[r].token + (- ses[r].tokenConsumed)]
           /\ tokenRemain' = tokenRemain - (- ses[r].tokenConsumed)
           /\ UNCHANGED <<failed[r]>>
        Lost ==
           /\ failed'[r] = TRUE
           /\ UNCHANGED <<paid[r], tokenRemain>>
  <1>3. /\ refundPc[r] = "token"
        /\ refundPc'[r] = "done"
        /\ UNCHANGED <<pc[r], req[r], ses[r], record[r], fee[r], userQuota,
                        subUsed>>
    BY DEF TypeOK, RefundToken, WriteToken, MarkFailed, GotoRefund, NoWrite,
      database
  <1>4. Returned \/ Lost
    BY <1>1, <1>3 DEF TypeOK, RefundToken, WriteToken, MarkFailed, GotoRefund, NoWrite,
      database, FieldsTyped
  <1>5. CASE Returned
    <2>1. /\ paid'[r] \in Charge
          /\ paid'[r].token = paid[r].token + (- ses[r].tokenConsumed)
          /\ UNCHANGED <<paid[r].wallet, paid[r].sub, paid[r].unmarked>>
      BY <1>1, <1>3, <1>5 DEF LocalType, FieldsTyped, Charge
    <2>2. LocalType(r)'
      BY <1>1, <1>3, <1>5, <2>1 DEF LocalType, RequestLabels, RefundLabels, FieldsTyped
    <2>3. SessionInv(r)'
      BY <1>1, <1>3, <1>5, <2>1 DEF SessionInv, UnfundedInv, OpenInv, SettledInv, RefundInv, LedgerInv,
         TokenCovers, Covers, Held, HeldElsewhere, HeldUnlessUnmarked, UnmarkedInv, Owed,
         Playground, BySubscription,
         BeforeToken, BeforeFunding, Agreed, Reserving, AfterServing, FieldsTyped
    <2> QED BY <1>2, <2>2, <2>3, StepLemma
  <1>6. CASE Lost
    <2>1. LocalType(r)'
      BY <1>1, <1>3, <1>6 DEF LocalType, RequestLabels, RefundLabels, FieldsTyped
    <2>2. SessionInv(r)'
      BY <1>1, <1>3, <1>6 DEF SessionInv, UnfundedInv, OpenInv, SettledInv, RefundInv, LedgerInv,
         TokenCovers, Covers, Held, HeldElsewhere, HeldUnlessUnmarked, UnmarkedInv, Owed,
         Playground, BySubscription,
         BeforeToken, BeforeFunding, Agreed, Reserving, AfterServing, FieldsTyped
    <2> QED BY <1>2, <2>1, <2>2, StepLemma
  <1> QED BY <1>4, <1>5, <1>6

(* Reserve moves the target and takes nothing. *)
LEMMA ReserveStep ==
    ASSUME TypeOK, BillingInv, NEW r \in Requests, Reserve(r)
    PROVE  TypeOK' /\ BillingInv'
  <1>1. LocalType(r) /\ SessionInv(r) /\ FieldsTyped(r)
    BY LocalLemma
  <1>2. OnlyAt(r)
    BY DEF TypeOK, Reserve, Goto, SetSession, NoWrite, database, OnlyAt
  <1>3. /\ pc[r] = "serving" /\ pc'[r] = "reserveFunding"
        /\ UNCHANGED <<refundPc[r], req[r], record[r], paid[r], fee[r], failed[r],
                       userQuota, tokenRemain, subUsed>>
    BY DEF TypeOK, Reserve, Goto, NoWrite, database
  <1>4. PICK t \in Nat : /\ t > ses[r].preConsumed
                         /\ ses'[r] = [ses[r] EXCEPT !.effective = t]
    BY ConstantsAssumption DEF TypeOK, Reserve, SetSession
  <1>5. /\ ses'[r] \in Session /\ ses'[r].effective = t
        /\ UNCHANGED <<ses[r].funding, ses[r].preConsumed, ses[r].tokenConsumed,
                       ses[r].walletConsumed, ses[r].subPre, ses[r].extra,
                       ses[r].settled, ses[r].refunded, ses[r].fundingSettled>>
    BY <1>1, <1>4 DEF LocalType, Session
  <1>6. LocalType(r)'
    BY <1>1, <1>3, <1>5 DEF LocalType, RequestLabels
  <1>7. SessionInv(r)'
    BY <1>1, <1>3, <1>4, <1>5 DEF SessionInv, UnfundedInv, OpenInv, SettledInv,
       RefundInv, LedgerInv, TokenCovers, Covers, Held, HeldElsewhere, HeldUnlessUnmarked,
       UnmarkedInv, Playground,
       BySubscription, BeforeToken, BeforeFunding, Agreed, Reserving, AfterServing,
       FieldsTyped
  <1> QED BY <1>2, <1>6, <1>7, StepLemma

(* The end of serving with an answer fixes the price. *)
LEMMA SucceedStep ==
    ASSUME TypeOK, BillingInv, NEW r \in Requests, Succeed(r)
    PROVE  TypeOK' /\ BillingInv'
  <1>1. LocalType(r) /\ SessionInv(r) /\ FieldsTyped(r)
    BY LocalLemma
  <1>2. OnlyAt(r)
    BY DEF TypeOK, Succeed, Goto, NoWrite, database, OnlyAt
  <1>3. /\ pc[r] = "serving" /\ pc'[r] = "settle"
        /\ UNCHANGED <<refundPc[r], ses[r], record[r], paid[r], fee[r], failed[r],
                       userQuota, tokenRemain, subUsed>>
    BY DEF TypeOK, Succeed, Goto, NoWrite, database
  <1>4. PICK a \in Nat : req'[r] = [req[r] EXCEPT !.actual = a]
    BY ConstantsAssumption DEF TypeOK, Succeed
  <1>5. req'[r] \in RequestRecord /\ req'[r].actual = a /\ UNCHANGED req[r].kind
    BY <1>1, <1>4 DEF LocalType, RequestRecord
  <1>6. LocalType(r)'
    BY <1>1, <1>3, <1>5 DEF LocalType, RequestLabels
  <1>7. SessionInv(r)'
    BY <1>1, <1>3, <1>5 DEF SessionInv, UnfundedInv, OpenInv, SettledInv,
       RefundInv, LedgerInv, TokenCovers, Covers, Held, HeldElsewhere, HeldUnlessUnmarked,
       UnmarkedInv, Playground,
       BySubscription, BeforeToken, BeforeFunding, Agreed, Reserving, AfterServing,
       FieldsTyped
  <1> QED BY <1>2, <1>6, <1>7, StepLemma

(* The end of serving with an error. *)
LEMMA FailStep ==
    ASSUME TypeOK, BillingInv, NEW r \in Requests, Fail(r)
    PROVE  TypeOK' /\ BillingInv'
  <1>1. LocalType(r) /\ SessionInv(r) /\ FieldsTyped(r)
    BY LocalLemma
  <1>2. OnlyAt(r)
    BY DEF TypeOK, Fail, Goto, NoWrite, database, OnlyAt
  <1>3. /\ pc[r] = "serving" /\ pc'[r] = "refund"
        /\ UNCHANGED <<refundPc[r], ses[r], record[r], paid[r], fee[r], failed[r],
                       userQuota, tokenRemain, subUsed>>
    BY DEF TypeOK, Fail, Goto, NoWrite, database
  <1>4. PICK v \in BOOLEAN : req'[r] = [req[r] EXCEPT !.violation = v]
    BY DEF TypeOK, Fail
  <1>5. req'[r] \in RequestRecord /\ UNCHANGED <<req[r].actual, req[r].kind>>
    BY <1>1, <1>4 DEF LocalType, RequestRecord
  <1>6. LocalType(r)'
    BY <1>1, <1>3, <1>5 DEF LocalType, RequestLabels
  <1>7. SessionInv(r)'
    BY <1>1, <1>3, <1>5 DEF SessionInv, UnfundedInv, OpenInv, SettledInv,
       RefundInv, LedgerInv, TokenCovers, Covers, Held, HeldElsewhere, HeldUnlessUnmarked,
       UnmarkedInv, Playground,
       BySubscription, BeforeToken, BeforeFunding, Agreed, Reserving, AfterServing,
       FieldsTyped
  <1> QED BY <1>2, <1>6, <1>7, StepLemma

(* The violation fee is on a ledger of its own. *)
LEMMA FeeStep ==
    ASSUME TypeOK, BillingInv, NEW r \in Requests,
           ChargeViolationFee(r) \/ ChargeViolationFeeToken(r)
    PROVE  TypeOK' /\ BillingInv'
  <1>1. LocalType(r) /\ SessionInv(r) /\ FieldsTyped(r)
    BY LocalLemma
  <1>2. OnlyAt(r)
    BY DEF TypeOK, ChargeViolationFee, ChargeViolationFeeToken, Goto, database, OnlyAt
  <1>3. /\ pc[r] \in {"fee", "feeToken"} /\ pc'[r] \in {"feeToken", "done"}
        /\ UNCHANGED <<refundPc[r], req[r], ses[r], record[r], paid[r], failed[r]>>
        /\ userQuota' \in Int /\ tokenRemain' \in Int /\ subUsed' \in Nat
        /\ fee'[r] \in Nat
    BY ConstantsAssumption
    DEF TypeOK, ChargeViolationFee, ChargeViolationFeeToken, Goto, database
  <1>4. LocalType(r)'
    BY <1>1, <1>3 DEF LocalType, RequestLabels
  <1>5. SessionInv(r)'
    BY <1>1, <1>3 DEF SessionInv, UnfundedInv, OpenInv, SettledInv,
       RefundInv, LedgerInv, TokenCovers, Covers, Held, HeldElsewhere, HeldUnlessUnmarked,
       UnmarkedInv, Owed, Playground,
       BySubscription, BeforeToken, BeforeFunding, Agreed, Reserving, AfterServing,
       FieldsTyped
  <1> QED BY <1>2, <1>4, <1>5, StepLemma

(* A crash changes labels only. *)
LEMMA CrashStep ==
    ASSUME TypeOK, BillingInv, Crash
    PROVE  TypeOK' /\ BillingInv'
  <1>1. TypeOK'
    BY DEF TypeOK, Crash, RequestLabels, RefundLabels, NoWrite, database
  <1>2. ASSUME NEW q \in Requests PROVE SessionInv(q)'
    <2>1. LocalType(q) /\ SessionInv(q) /\ FieldsTyped(q)
      BY LocalLemma
    <2>2. /\ pc'[q] = IF pc[q] \in RequestEnds \cup {"idle"} THEN pc[q] ELSE "lost"
          /\ refundPc'[q] = IF refundPc[q] \in RefundEnds THEN refundPc[q] ELSE "lost"
          /\ UNCHANGED <<req[q], ses[q], record[q], paid[q], failed[q]>>
      BY DEF Crash, NoWrite, database
    <2>3. pc'[q] \in {pc[q], "lost"} /\ (pc[q] = "idle" => pc'[q] = "idle")
      BY <2>2
    <2> QED
      BY <2>1, <2>2, <2>3 DEF LocalType, SessionInv, UnfundedInv, OpenInv, SettledInv,
         RefundInv, LedgerInv, TokenCovers, Covers, Held, HeldElsewhere, HeldUnlessUnmarked,
         UnmarkedInv, Owed, Playground,
         BySubscription, BeforeToken, BeforeFunding, Agreed, Reserving, AfterServing,
         FieldsTyped, RequestEnds, RefundEnds, RequestLabels, RefundLabels
  <1> QED BY <1>1, <1>2 DEF BillingInv

-----------------------------------------------------------------------------
(* Every step of every request, in every interleaving, with any of the     *)
(* calls failing and with crashes, preserves types and invariant.          *)
LEMMA NextLemma ==
    ASSUME TypeOK, BillingInv, [Next]_vars
    PROVE  TypeOK' /\ BillingInv'
  <1>1. ASSUME NEW r \in Requests, Arrive(r) \/ Reserve(r)
        PROVE  TypeOK' /\ BillingInv'
    BY <1>1, ArriveStep, ReserveStep
  <1>2. ASSUME NEW r \in Requests, RequestStep(r)
        PROVE  TypeOK' /\ BillingInv'
    BY <1>2, NewBillingSessionStep, TryWalletStep, TokenCheckStep, TokenDecreaseStep,
       WalletPreConsumeStep, SubscriptionPreConsumeStep, RollbackTokenStep,
       ReserveFundingStep, ReserveTokenCheckStep, ReserveTokenDecreaseStep,
       ReserveRollbackStep, SucceedStep, FailStep, SettleFundingStep, SettleTokenStep,
       RefundStartStep, FeeStep
    DEF RequestStep
  <1>3. ASSUME NEW r \in Requests, RefundStep(r)
        PROVE  TypeOK' /\ BillingInv'
    BY <1>3, RefundWalletStep, RefundSubscriptionStep, RefundRecordStep,
       RefundExtraStep, RefundTokenStep
    DEF RefundStep
  <1>4. CASE Crash
    BY <1>4, CrashStep
  <1>5. CASE UNCHANGED vars
    <2>1. TypeOK'
      BY <1>5 DEF TypeOK, vars, database
    <2>2. ASSUME NEW q \in Requests PROVE Untouched(q)
      BY <1>5 DEF Untouched, vars, database
    <2>3. BillingInv'
      BY <2>2, FrameLemma DEF BillingInv
    <2> QED BY <2>1, <2>3
  <1> QED BY <1>1, <1>2, <1>3, <1>4, <1>5 DEF Next, Idle

(* The initial state satisfies types and invariant. *)
LEMMA InitLemma == Init => TypeOK /\ BillingInv
  <1> SUFFICES ASSUME Init PROVE TypeOK /\ BillingInv
    OBVIOUS
  <1>1. [kind |-> "relay", pref |-> "wallet_only", quote |-> 0, actual |-> 0,
         tokenTrusted |-> FALSE, violation |-> FALSE] \in RequestRecord
    BY DEF RequestRecord, AllKinds, AllPrefs
  <1>2. [wallet |-> 0, token |-> 0, sub |-> 0, unmarked |-> 0] \in Charge
    BY DEF Charge
  <1>3. NoSession \in Session
    BY NoSessionFresh DEF Fresh
  <1>4. TypeOK
    BY <1>1, <1>2, <1>3, ConstantsAssumption DEF TypeOK, Init, RequestLabels, RefundLabels
  <1>5. ASSUME NEW r \in Requests PROVE SessionInv(r)
    <2>1. /\ pc[r] = "idle" /\ refundPc[r] = "idle" /\ Fresh(ses[r])
          /\ paid[r].wallet = 0 /\ paid[r].sub = 0 /\ paid[r].token = 0
          /\ paid[r].unmarked = 0
          /\ record[r] = "none" /\ failed[r] = FALSE
      BY NoSessionFresh DEF Init
    <2>2. FieldsTyped(r)
      BY <1>4 DEF TypeOK, FieldsTyped, Session, MaxAttempts, RequestRecord, Charge
    <2> QED
      BY <2>1, <2>2 DEF Fresh, SessionInv, UnfundedInv, OpenInv, SettledInv, RefundInv,
         LedgerInv, TokenCovers, Covers, Held, HeldElsewhere, HeldUnlessUnmarked, UnmarkedInv,
         Playground, BySubscription,
         BeforeToken, BeforeFunding, Agreed, Reserving, AfterServing, FieldsTyped
  <1> QED BY <1>4, <1>5 DEF BillingInv

-----------------------------------------------------------------------------
(* For any number of requests, quotas and prices, any failures and any     *)
(* crashes, the session counters tell what is still held, less what a      *)
(* refund gave back without its record (NewBillingSession, Reserve,        *)
(* Settle, Refund).                                                        *)
THEOREM BillingCorrect == Spec => [](TypeOK /\ BillingInv)
  <1>1. TypeOK /\ BillingInv /\ [Next]_vars => (TypeOK /\ BillingInv)'
    BY NextLemma
  <1> QED BY InitLemma, <1>1, PTL DEF Spec

(* A request that ended undisturbed paid exactly what it owes (Settle,     *)
(* Refund and the rollback of preConsume).                                 *)
THEOREM ExactChargeHolds == Spec => []ExactCharge
  <1>1. ASSUME TypeOK, BillingInv PROVE ExactCharge
    <2> SUFFICES ASSUME NEW r \in Requests, Finished(r), "lost" \notin {pc[r], refundPc[r]},
                        ~failed[r]
                 PROVE  /\ paid[r].wallet + paid[r].sub = Owed(r) - paid[r].unmarked
                        /\ paid[r].token = IF Playground(r) THEN 0 ELSE Owed(r)
      BY DEF ExactCharge
    <2>1. LocalType(r) /\ SessionInv(r) /\ FieldsTyped(r)
      BY <1>1, LocalLemma
    <2>2. pc[r] \in {"done", "rejected"} /\ refundPc[r] \in {"idle", "done"}
      BY DEF Finished, RequestEnds, RefundEnds
    <2>3. paid[r].wallet + paid[r].sub = Held(r)
      BY <2>1 DEF SessionInv, LedgerInv, Held, HeldElsewhere, FieldsTyped
    <2>7. refundPc[r] = "idle" => paid[r].unmarked = 0
      BY <2>1 DEF SessionInv, LedgerInv, UnmarkedInv
    <2>4. CASE pc[r] = "rejected"
      BY <2>1, <2>2, <2>3, <2>4, <2>7 DEF SessionInv, UnfundedInv, RefundInv, LedgerInv,
         TokenCovers, Covers, Owed, Held, BeforeToken, AfterServing, FieldsTyped
    <2>5. CASE pc[r] = "done" /\ refundPc[r] = "idle"
      BY <2>1, <2>3, <2>5, <2>7 DEF SessionInv, SettledInv, AfterServing, Owed, FieldsTyped
    <2>6. CASE pc[r] = "done" /\ refundPc[r] = "done"
      BY <2>1, <2>3, <2>6 DEF SessionInv, RefundInv, TokenCovers, Covers, Owed,
         HeldUnlessUnmarked, FieldsTyped, Held, AfterServing
    <2> QED BY <2>2, <2>4, <2>5, <2>6
  <1> QED BY <1>1, BillingCorrect, PTL

(* No request holds quota of two sources, or more than it asked for and    *)
(* more than the real price (NewBillingSession's fallback).                *)
THEOREM ChargeBoundedHolds == Spec => []ChargeBounded
  <1>1. ASSUME TypeOK, BillingInv PROVE ChargeBounded
    <2> SUFFICES ASSUME NEW r \in Requests
                 PROVE  /\ paid[r].wallet = 0 \/ paid[r].sub = 0
                        /\ paid[r].wallet + paid[r].sub
                             <= Larger(req[r].actual, ses[r].effective)
      BY DEF ChargeBounded
    <2>1. SessionInv(r) /\ FieldsTyped(r)
      BY <1>1, LocalLemma
    <2> QED BY <2>1 DEF SessionInv, LedgerInv, Held, HeldElsewhere, FieldsTyped, Larger
  <1> QED BY <1>1, BillingCorrect, PTL

(* No request is given back more than it paid from its wallet or token, by *)
(* any rollback, settlement or retry, and none from its subscription but   *)
(* what a failed commit of the refund's record lets refundWithRetry repeat *)
(* (RefundSubscriptionPreConsume), at most once for every retry.           *)
THEOREM NeverOverRefundedHolds == Spec => []NeverOverRefunded
  <1>1. ASSUME TypeOK, BillingInv PROVE NeverOverRefunded
    <2> SUFFICES ASSUME NEW r \in Requests
                 PROVE  /\ paid[r].wallet >= 0 /\ paid[r].token >= 0
                        /\ paid[r].sub >= - paid[r].unmarked
                        /\ paid[r].sub >= - ((MaxAttempts - 1) * ses[r].subPre)
      BY DEF NeverOverRefunded
    <2>1. SessionInv(r) /\ FieldsTyped(r)
      BY <1>1, LocalLemma
    <2>2. (MaxAttempts - 1) * ses[r].subPre = 2 * ses[r].subPre
      BY <2>1 DEF MaxAttempts, FieldsTyped
    <2>3. Held(r) >= - paid[r].unmarked /\ Held(r) >= - (2 * ses[r].subPre)
      BY <2>1 DEF SessionInv, LedgerInv, HeldUnlessUnmarked, Held, FieldsTyped
    <2>4. ~BySubscription(r) => paid[r].unmarked = 0
      BY <2>1 DEF SessionInv, LedgerInv, UnmarkedInv
    <2> QED BY <2>1, <2>2, <2>3, <2>4 DEF SessionInv, LedgerInv, Held, HeldElsewhere, FieldsTyped
  <1> QED BY <1>1, BillingCorrect, PTL

(* A write through PostConsumeUserSubscriptionDelta that fits, or that     *)
(* gives back, keeps the used amount within the total.                     *)
LEMMA SubscriptionLemma ==
    ASSUME TypeOK, BillingInv, SubscriptionWithinTotal, [Next]_vars
    PROVE  SubscriptionWithinTotal'
  <1>1. subUsed \in Nat /\ SubTotal \in Nat /\ FeeQuota \in Nat
    BY ConstantsAssumption DEF TypeOK
  <1>2. ASSUME NEW n \in Int, SubFits(n) \/ n <= 0, subUsed' = Larger(subUsed + n, 0)
        PROVE  SubscriptionWithinTotal'
    BY <1>1, <1>2 DEF SubscriptionWithinTotal, SubFits, Larger
  <1>3. CASE UNCHANGED subUsed
    BY <1>3 DEF SubscriptionWithinTotal
  <1>4. ASSUME NEW r \in Requests
        PROVE  /\ ses[r].effective \in Nat /\ ses[r].preConsumed \in Nat
               /\ ses[r].subPre \in Nat /\ ses[r].extra \in Nat /\ req[r].actual \in Nat
    BY DEF TypeOK, Session, RequestRecord
  <1>5. ASSUME NEW r \in Requests, SubscriptionPreConsume(r)
        PROVE  SubscriptionWithinTotal'
    BY <1>2, <1>3, <1>4, <1>5 DEF SubscriptionPreConsume, WriteSub, PreConsumeRefused,
       NoWrite, database
  <1>6. ASSUME NEW r \in Requests, ReserveFunding(r)
        PROVE  SubscriptionWithinTotal'
    BY <1>2, <1>3, <1>4, <1>6 DEF ReserveFunding, ReserveDelta, WriteSub, WriteWallet,
       ReserveRefused, NoWrite, database
  <1>7. ASSUME NEW r \in Requests, SettleFunding(r)
        PROVE  SubscriptionWithinTotal'
    BY <1>2, <1>3, <1>4, <1>7 DEF SettleFunding, SettleDelta, WriteSub, WriteWallet,
       NoWrite, database
  <1>8. ASSUME NEW r \in Requests, ReserveRollback(r)
        PROVE  SubscriptionWithinTotal'
    <2>1. ses[r].preConsumed <= ses[r].effective
      BY <1>8 DEF BillingInv, SessionInv, OpenInv, Reserving, ReserveRollback
    <2> QED
      BY <1>2, <1>3, <1>4, <1>8, <2>1 DEF ReserveRollback, ReserveDelta, WriteSub, WriteWallet,
         NoWrite, database
  <1>9. ASSUME NEW r \in Requests, RefundSubscription(r) \/ RefundExtra(r)
        PROVE  SubscriptionWithinTotal'
    BY <1>2, <1>3, <1>4, <1>9 DEF RefundSubscription, RefundExtra, WriteSub,
       RefundAttemptFailed, NoWrite, database
  <1>10. ASSUME NEW r \in Requests, ChargeViolationFee(r)
         PROVE  SubscriptionWithinTotal'
    <2>1. CASE SubFits(FeeQuota) /\ subUsed' = subUsed + FeeQuota
      BY <1>1, <2>1 DEF SubscriptionWithinTotal, SubFits
    <2> QED BY <1>3, <1>10, <2>1 DEF ChargeViolationFee, database
  <1>11. ASSUME NEW r \in Requests, Arrive(r) \/ Reserve(r)
         PROVE  UNCHANGED subUsed
    BY <1>11 DEF Arrive, Reserve, NoWrite, database
  <1>12. ASSUME NEW r \in Requests,
                \/ NewBillingSession(r) \/ TryWallet(r) \/ TokenCheck(r) \/ TokenDecrease(r)
                \/ WalletPreConsume(r) \/ RollbackToken(r) \/ ReserveTokenCheck(r)
                \/ ReserveTokenDecrease(r)
         PROVE  UNCHANGED subUsed
    BY <1>12 DEF NewBillingSession, TryWallet, TokenCheck, TokenDecrease, WalletPreConsume,
       PreConsumeRefused, RollbackToken, ReserveTokenCheck, ReserveTokenDecrease,
       WriteToken, WriteWallet, NoWrite, database
  <1>13. ASSUME NEW r \in Requests,
                \/ Succeed(r) \/ Fail(r) \/ SettleToken(r) \/ Refund(r)
                \/ ChargeViolationFeeToken(r) \/ RefundWallet(r) \/ RefundToken(r)
         PROVE  UNCHANGED subUsed
    BY <1>13 DEF Succeed, Fail, SettleToken, Refund, ChargeViolationFeeToken, RefundWallet,
       RefundToken, WriteToken, WriteWallet, NoWrite, database
  <1>14. ASSUME NEW r \in Requests, RefundRecord(r)
         PROVE  UNCHANGED subUsed
    BY <1>14 DEF RefundRecord, RefundAttemptFailed, NoWrite, database
  <1>15. CASE Crash \/ Idle \/ UNCHANGED vars
    BY <1>3, <1>15 DEF Crash, Idle, vars, NoWrite, database
  <1>16. ASSUME NEW r \in Requests, RequestStep(r)
         PROVE  SubscriptionWithinTotal'
    BY <1>3, <1>5, <1>6, <1>7, <1>8, <1>10, <1>12, <1>13, <1>16 DEF RequestStep
  <1>17. ASSUME NEW r \in Requests, RefundStep(r)
         PROVE  SubscriptionWithinTotal'
    BY <1>3, <1>9, <1>13, <1>14, <1>17 DEF RefundStep
  <1> QED BY <1>3, <1>11, <1>15, <1>16, <1>17 DEF Next

(* A limited subscription never passes its total, for any number of        *)
(* concurrent pre-consumptions, settlements and fees.                      *)
THEOREM SubscriptionWithinTotalHolds == Spec => []SubscriptionWithinTotal
  <1>1. Init => SubscriptionWithinTotal
    BY ConstantsAssumption DEF Init, SubscriptionWithinTotal
  <1>2. /\ TypeOK /\ BillingInv /\ SubscriptionWithinTotal /\ [Next]_vars
        => SubscriptionWithinTotal'
    BY SubscriptionLemma
  <1> QED BY <1>1, <1>2, BillingCorrect, PTL DEF Spec

(* What a step of request q does to r's payments and session: nothing when *)
(* r is another request, and nothing when r is settled.                    *)
LEMMA SettledLemma ==
    ASSUME TypeOK, BillingInv, [Next]_vars, NEW r \in Requests, ses[r].settled
    PROVE  paid'[r] = paid[r] /\ ses'[r] = ses[r]
  <1>1. pc[r] \in AfterServing /\ refundPc[r] \notin {"funding", "record", "extra", "token"}
    BY LocalLemma DEF SessionInv, LedgerInv, RefundInv
  <1>2. ASSUME NEW q \in Requests, Arrive(q) \/ Reserve(q)
        PROVE  paid'[r] = paid[r] /\ ses'[r] = ses[r]
    BY <1>1, <1>2 DEF Arrive, Reserve, SetSession, NoWrite, database, AfterServing, TypeOK
  <1>3. ASSUME NEW q \in Requests,
               NewBillingSession(q) \/ TryWallet(q) \/ TokenCheck(q) \/ TokenDecrease(q)
        PROVE  paid'[r] = paid[r] /\ ses'[r] = ses[r]
    BY <1>1, <1>3 DEF NewBillingSession, TryWallet, TokenCheck, TokenDecrease, WriteToken,
       StartSubscription, StartWallet, Reject, SetSession, NoWrite, database, AfterServing,
       TypeOK
  <1>4. ASSUME NEW q \in Requests,
               WalletPreConsume(q) \/ SubscriptionPreConsume(q) \/ RollbackToken(q)
        PROVE  paid'[r] = paid[r] /\ ses'[r] = ses[r]
    BY <1>1, <1>4 DEF WalletPreConsume, SubscriptionPreConsume, RollbackToken, WriteToken,
       WriteWallet, WriteSub, PreConsumeRefused, StartWallet, Reject, SetSession, NoWrite,
       database, AfterServing, TypeOK
  <1>5. ASSUME NEW q \in Requests,
               \/ ReserveFunding(q) \/ ReserveTokenCheck(q) \/ ReserveTokenDecrease(q)
               \/ ReserveRollback(q)
        PROVE  paid'[r] = paid[r] /\ ses'[r] = ses[r]
    BY <1>1, <1>5 DEF ReserveFunding, ReserveTokenCheck, ReserveTokenDecrease, ReserveRollback,
       ReserveRefused, Reserved, WriteToken, WriteWallet, WriteSub, SetSession, NoWrite,
       database, AfterServing, TypeOK
  <1>6. ASSUME NEW q \in Requests, SettleFunding(q) \/ SettleToken(q)
        PROVE  paid'[r] = paid[r] /\ ses'[r] = ses[r]
    BY <1>1, <1>6 DEF SettleFunding, SettleToken, WriteToken, WriteWallet, WriteSub,
       SetSession, NoWrite, database, AfterServing, TypeOK
  <1>7. ASSUME NEW q \in Requests, Succeed(q) \/ Fail(q) \/ Refund(q)
        PROVE  paid'[r] = paid[r] /\ ses'[r] = ses[r]
    BY <1>1, <1>7 DEF Succeed, Fail, Refund, SetSession, NoWrite, database, AfterServing,
       TypeOK
  <1>8. ASSUME NEW q \in Requests, ChargeViolationFee(q) \/ ChargeViolationFeeToken(q)
        PROVE  paid'[r] = paid[r] /\ ses'[r] = ses[r]
    BY <1>8 DEF ChargeViolationFee, ChargeViolationFeeToken
  <1>9. ASSUME NEW q \in Requests, RefundStep(q)
        PROVE  paid'[r] = paid[r] /\ ses'[r] = ses[r]
    BY <1>1, <1>9 DEF RefundStep, RefundWallet, RefundSubscription, RefundRecord, RefundExtra,
       RefundToken, RefundAttemptFailed, WriteToken, WriteWallet, WriteSub, SetSession,
       NoWrite, database, TypeOK
  <1>10. CASE Crash \/ Idle \/ UNCHANGED vars
    BY <1>10 DEF Crash, Idle, vars, NoWrite, database
  <1>11. ASSUME NEW q \in Requests, RequestStep(q)
         PROVE  paid'[r] = paid[r] /\ ses'[r] = ses[r]
    BY <1>3, <1>4, <1>5, <1>6, <1>7, <1>8, <1>11 DEF RequestStep
  <1> QED BY <1>2, <1>9, <1>10, <1>11 DEF Next

(* A settled session is final: no step of any goroutine charges or refunds *)
(* the request again (Settle, Refund).                                     *)
THEOREM SettledIsFinalHolds == Spec => SettledIsFinal
  <1>1. TypeOK /\ BillingInv /\ [Next]_vars
        => [\A r \in Requests : ses[r].settled => paid'[r] = paid[r] /\ ses'[r] = ses[r]]_vars
    BY SettledLemma
  <1> QED BY <1>1, BillingCorrect, PTL DEF Spec, SettledIsFinal
=============================================================================
