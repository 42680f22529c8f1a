--------------------------- MODULE BillingSession ---------------------------
(***************************************************************************)
(* One billing session per API request (service/billing_session.go): the   *)
(* request is quoted, pre-consumes the quote from its token and from a     *)
(* funding source (wallet or subscription), is served, and then either     *)
(* settles to the real price or gives the pre-consumption back in a        *)
(* background goroutine.  Requests of one user run concurrently against    *)
(* the same three database columns: users.quota, tokens.remain_quota and   *)
(* user_subscriptions.amount_used.                                         *)
(*                                                                         *)
(* Every database call is a step of its own and may fail; the process may  *)
(* crash between any two steps and then loses every session.               *)
(***************************************************************************)
EXTENDS Integers

CONSTANTS
    Requests,        \* the requests of one user that share its quotas
    Kinds,           \* which kinds of request arrive, a subset of AllKinds
    Prefs,           \* billing preferences in use, a subset of AllPrefs
    Quotes,          \* values of QuotaToPreConsume
    Actuals,         \* real prices found when the answer is complete
    ReserveTargets,  \* arguments of Reserve; {} while no caller exists
    WalletInit,      \* users.quota at the start
    TokenInit,       \* tokens.remain_quota at the start
    TokenUnlimited,  \* tokens.unlimited_quota
    HasSub,          \* the user has an active subscription
    SubTotal,        \* its amount_total, 0 for no limit
    TrustQuota,      \* common.GetTrustQuota()
    FeeQuota,        \* calcViolationFeeQuota(...), 0 when the fee is off
    CacheLag,        \* how far a cached quota may be from its column
    Failing,         \* the database calls that may return an error
    Crashes          \* whether the process may crash

AllKinds == {"relay", "playground", "task", "free"}
AllPrefs == {"subscription_only", "wallet_only", "wallet_first", "subscription_first"}
(* The calls that may fail: a write to a column, the commit of a refund    *)
(* record, the acknowledgement of a commit that did happen, a read.        *)
Calls == {"wallet", "token", "subscription", "record", "ack", "read"}

ASSUME ConstantsAssumption ==
    /\ Kinds \subseteq AllKinds
    /\ Prefs \subseteq AllPrefs
    /\ Quotes \subseteq Nat
    /\ Actuals \subseteq Nat
    /\ ReserveTargets \subseteq Nat
    /\ WalletInit \in Int
    /\ TokenInit \in Int
    /\ TokenUnlimited \in BOOLEAN
    /\ HasSub \in BOOLEAN
    /\ SubTotal \in Nat
    /\ TrustQuota \in Nat
    /\ FeeQuota \in Nat
    /\ CacheLag \subseteq Int
    /\ Failing \subseteq Calls
    /\ Crashes \in BOOLEAN

(* refundWithRetry gives up after this many attempts. *)
MaxAttempts == 3

VARIABLES
    pc,           \* where the request's own goroutine is
    refundPc,     \* where its background refund goroutine is
    req,          \* the request: kind, preference, quote, real price
    ses,          \* the BillingSession and its FundingSource
    userQuota,    \* users.quota
    tokenRemain,  \* tokens.remain_quota
    subUsed,      \* user_subscriptions.amount_used
    record,       \* subscription_pre_consume_records.status by request
    paid,         \* history: net amount each request took from each column,
                  \* and what refunds gave back without marking it (unmarked)
    fee,          \* history: violation fee taken from the funding source
    failed        \* history: a compensating or settling call failed

database == <<userQuota, tokenRemain, subUsed, record>>
vars == <<pc, refundPc, req, ses, database, paid, fee, failed>>

RequestLabels == {"idle", "choose", "tryWallet", "tokenCheck", "tokenDecrease",
                  "fundingPreConsume", "rollback", "serving", "reserveFunding",
                  "reserveTokenCheck", "reserveTokenDecrease", "reserveRollback",
                  "settle", "settleToken", "refund", "fee", "feeToken",
                  "done", "rejected", "lost"}
RefundLabels == {"idle", "funding", "record", "extra", "token", "done", "lost"}

RequestRecord == [kind : AllKinds, pref : AllPrefs, quote : Nat, actual : Nat,
                  tokenTrusted : BOOLEAN, violation : BOOLEAN]

Session == [funding : {"none", "wallet", "subscription"},
            fallback : {"none", "wallet", "subscription"},
            err : {"none", "insufficient", "other"},
            effective : Nat,        \* effectiveQuota, then the target of Reserve
            preConsumed : Nat,      \* preConsumedQuota
            tokenConsumed : Nat,
            walletConsumed : Nat,   \* WalletFunding.consumed
            subPre : Nat,           \* SubscriptionFunding.preConsumed
            extra : Nat,            \* extraReserved
            trusted : BOOLEAN,
            fundingSettled : BOOLEAN,
            settled : BOOLEAN,
            refunded : BOOLEAN,
            attempts : 0 .. MaxAttempts]

NoSession == [funding |-> "none", fallback |-> "none", err |-> "none",
              effective |-> 0, preConsumed |-> 0, tokenConsumed |-> 0,
              walletConsumed |-> 0, subPre |-> 0, extra |-> 0, trusted |-> FALSE,
              fundingSettled |-> FALSE, settled |-> FALSE, refunded |-> FALSE,
              attempts |-> 0]

Charge == [wallet : Int, token : Int, sub : Int, unmarked : Nat]

Init ==
    /\ pc = [r \in Requests |-> "idle"]
    /\ refundPc = [r \in Requests |-> "idle"]
    /\ req \in [Requests -> {[kind |-> "relay", pref |-> "wallet_only", quote |-> 0,
                              actual |-> 0, tokenTrusted |-> FALSE,
                              violation |-> FALSE]}]
    /\ ses = [r \in Requests |-> NoSession]
    /\ userQuota = WalletInit
    /\ tokenRemain = TokenInit
    /\ subUsed = 0
    /\ record = [r \in Requests |-> "none"]
    /\ paid = [r \in Requests |-> [wallet |-> 0, token |-> 0, sub |-> 0, unmarked |-> 0]]
    /\ fee = [r \in Requests |-> 0]
    /\ failed = [r \in Requests |-> FALSE]

-----------------------------------------------------------------------------
(* Helpers: control, reads and writes. *)

Goto(r, label) == pc' = [pc EXCEPT ![r] = label]
SetSession(r, s) == ses' = [ses EXCEPT ![r] = s]
GotoRefund(r, label) == refundPc' = [refundPc EXCEPT ![r] = label]
MayFail(w) == w \in Failing
MarkFailed(r) == failed' = [failed EXCEPT ![r] = TRUE]
Larger(a, b) == IF a >= b THEN a ELSE b

Playground(r) == req[r].kind = "playground"
BySubscription(r) == ses[r].funding = "subscription"

(* What a read through the Redis copy of a column may return. *)
CachedReads(column) == {column + d : d \in CacheLag}

(* users.quota = users.quota - n, n < 0 for IncreaseUserQuota. *)
WriteWallet(r, n) ==
    /\ userQuota' = userQuota - n
    /\ paid' = [paid EXCEPT ![r] = [paid[r] EXCEPT !.wallet = paid[r].wallet + n]]
    /\ UNCHANGED <<tokenRemain, subUsed, record>>

(* tokens.remain_quota = tokens.remain_quota - n. *)
WriteToken(r, n) ==
    /\ tokenRemain' = tokenRemain - n
    /\ paid' = [paid EXCEPT ![r] = [paid[r] EXCEPT !.token = paid[r].token + n]]
    /\ UNCHANGED <<userQuota, subUsed, record>>

(* Faulty variant: looks at the used amount before the change. *)
SubFitsBefore(n) == SubTotal = 0 \/ subUsed <= SubTotal

(* PostConsumeUserSubscriptionDelta refuses to pass the total. *)
SubFits(n) == SubTotal = 0 \/ subUsed + n <= SubTotal

(* PostConsumeUserSubscriptionDelta: the used amount never drops below 0. *)
WriteSub(r, n) ==
    /\ subUsed' = Larger(subUsed + n, 0)
    /\ paid' = [paid EXCEPT ![r] = [paid[r] EXCEPT !.sub = paid[r].sub + n]]
    /\ UNCHANGED <<userQuota, tokenRemain>>

NoWrite == UNCHANGED <<database, paid>>

-----------------------------------------------------------------------------
(* PreConsumeBilling: choose a funding source and pre-consume the quote. *)

(* The request passes authentication, which puts the token's cached        *)
(* remaining quota into the request context, and is priced.  A free model  *)
(* gets no session at all.                                                 *)
Arrive(r) ==
    /\ pc[r] = "idle"
    /\ \E k \in Kinds, p \in Prefs, q \in Quotes, t \in CachedReads(tokenRemain) :
          /\ req' = [req EXCEPT ![r] = [req[r] EXCEPT !.kind = k, !.pref = p, !.quote = q,
                                 !.tokenTrusted = TokenUnlimited \/ t > TrustQuota]]
          /\ Goto(r, IF k = "free" THEN "serving" ELSE "choose")
    /\ NoWrite
    /\ UNCHANGED <<refundPc, ses, fee, failed>>

(* trySubscription: a session that will pre-consume at least 1. *)
SubscriptionSession(r, fallback) ==
    [NoSession EXCEPT !.funding = "subscription", !.fallback = fallback,
                      !.effective = Larger(req[r].quote, 1)]

StartSubscription(r, fallback) ==
    /\ SetSession(r, SubscriptionSession(r, fallback))
    /\ Goto(r, "tokenCheck")

StartWallet(r, fallback) ==
    /\ SetSession(r, [NoSession EXCEPT !.fallback = fallback])
    /\ Goto(r, "tryWallet")

Reject(r) ==
    /\ SetSession(r, NoSession)
    /\ Goto(r, "rejected")

(* NewBillingSession: the order in which the sources are tried. *)
NewBillingSession(r) ==
    /\ pc[r] = "choose"
    /\ \/ req[r].pref = "subscription_only" /\ StartSubscription(r, "none")
       \/ req[r].pref = "wallet_only" /\ StartWallet(r, "none")
       \/ req[r].pref = "wallet_first" /\ StartWallet(r, "subscription")
       \/ req[r].pref = "subscription_first" /\ HasSub /\ StartSubscription(r, "wallet")
       \/ req[r].pref = "subscription_first" /\ ~HasSub /\ StartWallet(r, "none")
       \/ req[r].pref = "subscription_first" /\ MayFail("read") /\ Reject(r)
    /\ NoWrite
    /\ UNCHANGED <<refundPc, req, fee, failed>>

(* shouldTrust for a wallet session that saw quota in the wallet. *)
ShouldTrust(r, quota) ==
    /\ req[r].kind # "task"
    /\ TrustQuota > 0
    /\ req[r].tokenTrusted
    /\ quota > TrustQuota

(* tryWallet: look at the cached wallet, then pre-consume or fall back. *)
TryWallet(r) ==
    /\ pc[r] = "tryWallet"
    /\ \/ \E quota \in CachedReads(userQuota) :
            LET enough == quota > 0 /\ quota >= req[r].quote
                trusted == ShouldTrust(r, quota)
                effective == IF trusted THEN 0 ELSE req[r].quote
            IN \/ /\ enough
                  /\ SetSession(r, [NoSession EXCEPT !.funding = "wallet",
                                                !.trusted = trusted,
                                                !.effective = effective])
                  /\ Goto(r, IF effective > 0 THEN "tokenCheck" ELSE "fundingPreConsume")
               \/ /\ ~enough
                  /\ ses[r].fallback = "subscription"
                  /\ StartSubscription(r, "none")
               \/ /\ ~enough
                  /\ ses[r].fallback = "none"
                  /\ Reject(r)
       \/ MayFail("read") /\ Reject(r)
    /\ NoWrite
    /\ UNCHANGED <<refundPc, req, fee, failed>>

(* PreConsumeTokenQuota, first half: the check on the cached token.  The   *)
(* playground has no token to charge, yet tokenConsumed is set.            *)
TokenCheck(r) ==
    /\ pc[r] = "tokenCheck"
    /\ \/ /\ Playground(r)
          /\ SetSession(r, [ses[r] EXCEPT !.tokenConsumed = ses[r].effective])
          /\ Goto(r, "fundingPreConsume")
       \/ /\ ~Playground(r)
          /\ \E t \in CachedReads(tokenRemain) :
               \/ /\ TokenUnlimited \/ t >= ses[r].effective
                  /\ Goto(r, "tokenDecrease")
                  /\ UNCHANGED ses
               \/ /\ ~TokenUnlimited /\ t < ses[r].effective
                  /\ Reject(r)
       \/ /\ ~Playground(r) /\ MayFail("read")
          /\ Reject(r)
    /\ NoWrite
    /\ UNCHANGED <<refundPc, req, fee, failed>>

(* PreConsumeTokenQuota, second half: the decrement. *)
TokenDecrease(r) ==
    /\ pc[r] = "tokenDecrease"
    /\ \/ /\ WriteToken(r, ses[r].effective)
          /\ SetSession(r, [ses[r] EXCEPT !.tokenConsumed = ses[r].effective])
          /\ Goto(r, "fundingPreConsume")
       \/ /\ MayFail("token")
          /\ NoWrite
          /\ Reject(r)
    /\ UNCHANGED <<refundPc, req, fee, failed>>

(* preConsume when the funding source refused. *)
PreConsumeRefused(r, error) ==
    /\ NoWrite
    /\ SetSession(r, [ses[r] EXCEPT !.err = error])
    /\ Goto(r, "rollback")

(* WalletFunding.PreConsume: no lower bound on the column. *)
WalletPreConsume(r) ==
    /\ pc[r] = "fundingPreConsume"
    /\ ses[r].funding = "wallet"
    /\ \/ /\ ses[r].effective = 0
          /\ NoWrite
          /\ SetSession(r, [ses[r] EXCEPT !.preConsumed = ses[r].effective])
          /\ Goto(r, "serving")
       \/ /\ ses[r].effective > 0
          /\ WriteWallet(r, ses[r].effective)
          /\ SetSession(r, [ses[r] EXCEPT !.walletConsumed = ses[r].effective,
                                          !.preConsumed = ses[r].effective])
          /\ Goto(r, "serving")
       \/ /\ ses[r].effective > 0 /\ MayFail("wallet")
          /\ PreConsumeRefused(r, "other")
    /\ UNCHANGED <<refundPc, req, fee, failed>>

(* SubscriptionFunding.PreConsume: one transaction that writes the record  *)
(* and the used amount, or neither.                                        *)
SubscriptionPreConsume(r) ==
    /\ pc[r] = "fundingPreConsume"
    /\ BySubscription(r)
    /\ \/ /\ HasSub /\ SubFits(ses[r].effective)
          /\ WriteSub(r, ses[r].effective)
          /\ record' = [record EXCEPT ![r] = "consumed"]
          /\ SetSession(r, [ses[r] EXCEPT !.subPre = ses[r].effective,
                                          !.preConsumed = ses[r].effective])
          /\ Goto(r, "serving")
       \/ /\ ~(HasSub /\ SubFits(ses[r].effective))
          /\ PreConsumeRefused(r, "insufficient")
       \/ /\ MayFail("subscription")
          /\ PreConsumeRefused(r, "other")
    /\ UNCHANGED <<refundPc, req, fee, failed>>

(* preConsume's error path: give the token amount back, then report the    *)
(* error, on which NewBillingSession may fall back to the wallet.          *)
RollbackToken(r) ==
    /\ pc[r] = "rollback"
    /\ \/ /\ Playground(r) \/ ses[r].tokenConsumed = 0
          /\ NoWrite
          /\ UNCHANGED failed
       \/ /\ ~Playground(r) /\ ses[r].tokenConsumed > 0
          /\ WriteToken(r, - ses[r].tokenConsumed)
          /\ UNCHANGED failed
       \/ /\ ~Playground(r) /\ ses[r].tokenConsumed > 0 /\ MayFail("token")
          /\ NoWrite
          /\ MarkFailed(r)
    /\ IF ses[r].err = "insufficient" /\ ses[r].fallback = "wallet"
         THEN StartWallet(r, "none")
         ELSE Reject(r)
    /\ UNCHANGED <<refundPc, req, fee>>

-----------------------------------------------------------------------------
(* While the request is served: Reserve, and the end of serving. *)

(* Reserve: raise the pre-consumption to target before sending upstream. *)
Reserve(r) ==
    /\ pc[r] = "serving"
    /\ ses[r].funding # "none"
    /\ ~ses[r].trusted
    /\ \E target \in ReserveTargets :
          /\ target > ses[r].preConsumed
          /\ SetSession(r, [ses[r] EXCEPT !.effective = target])
    /\ Goto(r, "reserveFunding")
    /\ NoWrite
    /\ UNCHANGED <<refundPc, req, fee, failed>>

ReserveDelta(r) == ses[r].effective - ses[r].preConsumed

(* A failed Reserve returns a skip-retry error: the request fails. *)
ReserveRefused(r) == NoWrite /\ UNCHANGED ses /\ Goto(r, "refund")

ReserveFunding(r) ==
    /\ pc[r] = "reserveFunding"
    /\ \/ /\ ~BySubscription(r)
          /\ WriteWallet(r, ReserveDelta(r))
          /\ SetSession(r, [ses[r] EXCEPT !.walletConsumed = ses[r].walletConsumed + ReserveDelta(r)])
          /\ Goto(r, "reserveTokenCheck")
       \/ /\ BySubscription(r) /\ SubFits(ReserveDelta(r))
          /\ WriteSub(r, ReserveDelta(r))
          /\ UNCHANGED <<record, ses>>
          /\ Goto(r, "reserveTokenCheck")
       \/ /\ BySubscription(r) /\ (~SubFits(ReserveDelta(r)) \/ MayFail("subscription"))
          /\ ReserveRefused(r)
       \/ /\ ~BySubscription(r) /\ MayFail("wallet")
          /\ ReserveRefused(r)
    /\ UNCHANGED <<refundPc, req, fee, failed>>

(* The session's fields after both reservations succeeded. *)
Reserved(r) ==
    /\ SetSession(r, [ses[r] EXCEPT !.preConsumed = ses[r].effective,
                          !.tokenConsumed = ses[r].tokenConsumed + ReserveDelta(r),
                          !.extra = ses[r].extra + ReserveDelta(r)])
    /\ Goto(r, "serving")

ReserveTokenCheck(r) ==
    /\ pc[r] = "reserveTokenCheck"
    /\ \/ /\ Playground(r)
          /\ Reserved(r)
       \/ /\ ~Playground(r)
          /\ \E t \in CachedReads(tokenRemain) :
               Goto(r, IF TokenUnlimited \/ t >= ReserveDelta(r)
                         THEN "reserveTokenDecrease" ELSE "reserveRollback")
          /\ UNCHANGED ses
       \/ /\ ~Playground(r) /\ MayFail("read")
          /\ Goto(r, "reserveRollback")
          /\ UNCHANGED ses
    /\ NoWrite
    /\ UNCHANGED <<refundPc, req, fee, failed>>

ReserveTokenDecrease(r) ==
    /\ pc[r] = "reserveTokenDecrease"
    /\ \/ /\ WriteToken(r, ReserveDelta(r))
          /\ Reserved(r)
       \/ /\ MayFail("token")
          /\ NoWrite
          /\ Goto(r, "reserveRollback")
          /\ UNCHANGED ses
    /\ UNCHANGED <<refundPc, req, fee, failed>>

(* Faulty variant: WalletFunding.consumed keeps the raise. *)
ReserveRollbackStale(r) ==
    /\ pc[r] = "reserveRollback"
    /\ \/ ~BySubscription(r) /\ WriteWallet(r, - ReserveDelta(r))
       \/ BySubscription(r) /\ WriteSub(r, - ReserveDelta(r)) /\ UNCHANGED record
    /\ Goto(r, "refund")
    /\ UNCHANGED <<refundPc, req, ses, fee, failed>>

(* rollbackFundingReserve: a failure is logged and nothing else. *)
ReserveRollback(r) ==
    /\ pc[r] = "reserveRollback"
    /\ \/ /\ ~BySubscription(r)
          /\ WriteWallet(r, - ReserveDelta(r))
          /\ SetSession(r, [ses[r] EXCEPT !.walletConsumed = ses[r].walletConsumed - ReserveDelta(r)])
          /\ UNCHANGED failed
       \/ /\ BySubscription(r)
          /\ WriteSub(r, - ReserveDelta(r))
          /\ UNCHANGED <<record, ses, failed>>
       \/ /\ MayFail(IF BySubscription(r) THEN "subscription" ELSE "wallet")
          /\ NoWrite
          /\ MarkFailed(r)
          /\ UNCHANGED ses
    /\ Goto(r, "refund")
    /\ UNCHANGED <<refundPc, req, fee>>

(* The last attempt of the retry loop succeeded: the real price is known. *)
Succeed(r) ==
    /\ pc[r] = "serving"
    /\ \E a \in Actuals : req' = [req EXCEPT ![r] = [req[r] EXCEPT !.actual = a]]
    /\ Goto(r, "settle")
    /\ NoWrite
    /\ UNCHANGED <<refundPc, ses, fee, failed>>

(* Every attempt failed, or the retry loop stopped early; an error may     *)
(* carry the marker that the upstream charges a violation fee for.  Task   *)
(* requests (RelayTask) know no violation fee.                             *)
Fail(r) ==
    /\ pc[r] = "serving"
    /\ \E v \in IF FeeQuota > 0 /\ req[r].kind # "task" THEN BOOLEAN ELSE {FALSE} :
          req' = [req EXCEPT ![r] = [req[r] EXCEPT !.violation = v]]
    /\ Goto(r, "refund")
    /\ NoWrite
    /\ UNCHANGED <<refundPc, ses, fee, failed>>

-----------------------------------------------------------------------------
(* Settle. *)

(* Faulty variant: the pre-consumption is not deducted. *)
SettleAll(r) == req[r].actual
SettleDelta(r) == req[r].actual - ses[r].preConsumed

(* Faulty variant: the session is marked settled before the token is. *)
SettleEarly(r) ==
    /\ pc[r] = "settle"
    /\ ~BySubscription(r) /\ WriteWallet(r, SettleDelta(r))
    /\ SetSession(r, [ses[r] EXCEPT !.settled = TRUE])
    /\ Goto(r, "settleToken")
    /\ UNCHANGED <<refundPc, req, fee, failed>>

(* Settle, first commit: the funding source.  Without a session (a free    *)
(* model) SettleBilling falls back to PostConsumeQuota, which charges the  *)
(* wallet and then the token in the same way.  An error leaves the session *)
(* unsettled, is logged by the caller, and nothing is tried again.         *)
SettleFunding(r) ==
    /\ pc[r] = "settle"
    /\ \/ /\ SettleDelta(r) = 0
          /\ NoWrite
          /\ SetSession(r, [ses[r] EXCEPT !.settled = TRUE])
          /\ Goto(r, "done")
          /\ UNCHANGED failed
       \/ /\ SettleDelta(r) # 0
          /\ \/ ~BySubscription(r) /\ WriteWallet(r, SettleDelta(r))
             \/ /\ BySubscription(r) /\ SubFits(SettleDelta(r))
                /\ WriteSub(r, SettleDelta(r))
                /\ UNCHANGED record
          /\ \/ /\ Playground(r)
                /\ SetSession(r, [ses[r] EXCEPT !.fundingSettled = TRUE, !.settled = TRUE])
                /\ Goto(r, "done")
             \/ /\ ~Playground(r)
                /\ SetSession(r, [ses[r] EXCEPT !.fundingSettled = TRUE])
                /\ Goto(r, "settleToken")
          /\ UNCHANGED failed
       \/ /\ SettleDelta(r) # 0
          /\ \/ ~BySubscription(r) /\ MayFail("wallet")
             \/ BySubscription(r) /\ (MayFail("subscription") \/ ~SubFits(SettleDelta(r)))
          /\ NoWrite
          /\ MarkFailed(r)
          /\ UNCHANGED ses
          /\ Goto(r, "done")
    /\ UNCHANGED <<refundPc, req, fee>>

(* Settle, second commit: the token.  A failure is logged; the session is  *)
(* settled all the same.                                                   *)
SettleToken(r) ==
    /\ pc[r] = "settleToken"
    /\ \/ WriteToken(r, SettleDelta(r)) /\ UNCHANGED failed
       \/ MayFail("token") /\ NoWrite /\ MarkFailed(r)
    /\ SetSession(r, [ses[r] EXCEPT !.settled = TRUE])
    /\ Goto(r, "done")
    /\ UNCHANGED <<refundPc, req, fee>>

-----------------------------------------------------------------------------
(* Refund, and the violation fee. *)

NeedsRefund(s) ==
    /\ ~s.settled /\ ~s.refunded /\ ~s.fundingSettled
    /\ s.tokenConsumed > 0 \/ s.subPre > 0

(* Refund under the session's mutex: mark it and start the goroutine.  The *)
(* request goes on to the violation fee without waiting for it.            *)
Refund(r) ==
    /\ pc[r] = "refund"
    /\ IF NeedsRefund(ses[r])
         THEN /\ SetSession(r, [ses[r] EXCEPT !.refunded = TRUE])
              /\ GotoRefund(r, "funding")
         ELSE UNCHANGED <<ses, refundPc>>
    /\ Goto(r, IF req[r].violation THEN "fee" ELSE "done")
    /\ NoWrite
    /\ UNCHANGED <<req, fee, failed>>

(* Faulty variant: the playground, which has no token, gets one refunded. *)
AfterExtraAlways(r) == IF ses[r].tokenConsumed > 0 THEN "token" ELSE "done"

(* What the goroutine does after funding.Refund(), and after that. *)
AfterExtra(r) ==
    IF ses[r].tokenConsumed > 0 /\ ~Playground(r) THEN "token" ELSE "done"
AfterFunding(r) ==
    IF ses[r].extra > 0 /\ BySubscription(r) THEN "extra" ELSE AfterExtra(r)

(* WalletFunding.Refund: tried once, because += is not idempotent. *)
RefundWallet(r) ==
    /\ refundPc[r] = "funding"
    /\ ~BySubscription(r)
    /\ \/ WriteWallet(r, - ses[r].walletConsumed) /\ UNCHANGED failed
       \/ MayFail("wallet") /\ NoWrite /\ MarkFailed(r)
    /\ GotoRefund(r, AfterFunding(r))
    /\ UNCHANGED <<pc, req, ses, fee>>

(* Faulty variant: the loop starts over instead of giving up. *)
RefundAttemptForever(r) ==
    /\ SetSession(r, [ses[r] EXCEPT !.attempts = (ses[r].attempts + 1) % MaxAttempts])
    /\ GotoRefund(r, "funding")
    /\ UNCHANGED failed
(* An attempt of refundWithRetry failed: try again, or log and go on. *)
RefundAttemptFailed(r) ==
    /\ SetSession(r, [ses[r] EXCEPT !.attempts = ses[r].attempts + 1])
    /\ GotoRefund(r, IF ses[r].attempts + 1 < MaxAttempts THEN "funding" ELSE AfterFunding(r))
    /\ IF ses[r].attempts + 1 < MaxAttempts THEN UNCHANGED failed ELSE MarkFailed(r)

(* RefundSubscriptionPreConsume, up to the commit of the nested            *)
(* transaction: PostConsumeUserSubscriptionDelta runs on DB and not on tx. *)
RefundSubscription(r) ==
    /\ refundPc[r] = "funding"
    /\ BySubscription(r)
    /\ \/ /\ record[r] = "refunded"
          /\ GotoRefund(r, AfterFunding(r))
          /\ NoWrite
          /\ UNCHANGED <<ses, failed>>
       \/ /\ record[r] # "refunded"
          /\ WriteSub(r, - ses[r].subPre)
          /\ UNCHANGED <<record, ses, failed>>
          /\ GotoRefund(r, "record")
       \/ /\ record[r] # "refunded" /\ MayFail("subscription")
          /\ RefundAttemptFailed(r)
          /\ NoWrite
    /\ UNCHANGED <<pc, req, fee>>

(* ... and the commit of the outer transaction, which marks the record.    *)
(* The acknowledgement of the commit may be lost, and then it is tried     *)
(* again although it happened.  When the commit itself fails, the nested   *)
(* transaction has given the amount back and the record does not say so.   *)
RefundRecord(r) ==
    /\ refundPc[r] = "record"
    /\ \/ /\ record' = [record EXCEPT ![r] = "refunded"]
          /\ GotoRefund(r, AfterFunding(r))
          /\ UNCHANGED <<ses, paid, failed>>
       \/ /\ MayFail("ack")
          /\ record' = [record EXCEPT ![r] = "refunded"]
          /\ RefundAttemptFailed(r)
          /\ UNCHANGED paid
       \/ /\ MayFail("record")
          /\ RefundAttemptFailed(r)
          /\ paid' = [paid EXCEPT ![r] = [paid[r] EXCEPT
                                          !.unmarked = paid[r].unmarked + ses[r].subPre]]
          /\ UNCHANGED record
    /\ UNCHANGED <<pc, req, userQuota, tokenRemain, subUsed, fee>>

(* What Reserve added to the subscription is not in the record. *)
RefundExtra(r) ==
    /\ refundPc[r] = "extra"
    /\ \/ WriteSub(r, - ses[r].extra) /\ UNCHANGED <<record, failed>>
       \/ MayFail("subscription") /\ NoWrite /\ MarkFailed(r)
    /\ GotoRefund(r, AfterExtra(r))
    /\ UNCHANGED <<pc, req, ses, fee>>

RefundToken(r) ==
    /\ refundPc[r] = "token"
    /\ \/ WriteToken(r, - ses[r].tokenConsumed) /\ UNCHANGED failed
       \/ MayFail("token") /\ NoWrite /\ MarkFailed(r)
    /\ GotoRefund(r, "done")
    /\ UNCHANGED <<pc, req, ses, fee>>

(* ChargeViolationFeeIfNeeded: PostConsumeQuota of the fee, first the      *)
(* funding source; an error is logged and ends it.                         *)
ChargeViolationFee(r) ==
    /\ pc[r] = "fee"
    /\ \/ /\ ~BySubscription(r)
          /\ userQuota' = userQuota - FeeQuota
          /\ fee' = [fee EXCEPT ![r] = FeeQuota]
          /\ Goto(r, IF Playground(r) THEN "done" ELSE "feeToken")
          /\ UNCHANGED <<tokenRemain, subUsed, record>>
       \/ /\ BySubscription(r) /\ SubFits(FeeQuota)
          /\ subUsed' = subUsed + FeeQuota
          /\ fee' = [fee EXCEPT ![r] = FeeQuota]
          /\ Goto(r, IF Playground(r) THEN "done" ELSE "feeToken")
          /\ UNCHANGED <<tokenRemain, userQuota, record>>
       \/ /\ \/ ~BySubscription(r) /\ MayFail("wallet")
             \/ BySubscription(r) /\ (MayFail("subscription") \/ ~SubFits(FeeQuota))
          /\ Goto(r, "done")
          /\ UNCHANGED <<database, fee>>
    /\ UNCHANGED <<refundPc, req, ses, paid, failed>>

ChargeViolationFeeToken(r) ==
    /\ pc[r] = "feeToken"
    /\ \/ tokenRemain' = tokenRemain - FeeQuota
       \/ MayFail("token") /\ UNCHANGED tokenRemain
    /\ Goto(r, "done")
    /\ UNCHANGED <<refundPc, req, ses, userQuota, subUsed, record, paid, fee, failed>>

-----------------------------------------------------------------------------
(* The process dies: sessions and refund goroutines are gone, the database *)
(* keeps what was committed.  The restarted process knows none of them.    *)
RequestEnds == {"done", "rejected", "lost"}
RefundEnds == {"idle", "done", "lost"}

Crash ==
    /\ Crashes
    /\ \E r \in Requests : pc[r] \notin RequestEnds \cup {"idle"} \/ refundPc[r] \notin RefundEnds
    /\ pc' = [r \in Requests |-> IF pc[r] \in RequestEnds \cup {"idle"} THEN pc[r] ELSE "lost"]
    /\ refundPc' = [r \in Requests |-> IF refundPc[r] \in RefundEnds THEN refundPc[r] ELSE "lost"]
    /\ NoWrite
    /\ UNCHANGED <<req, ses, fee, failed>>

(* One request: every step of its own goroutine, then of its refund. *)
RequestStep(r) ==
    \/ NewBillingSession(r) \/ TryWallet(r) \/ TokenCheck(r) \/ TokenDecrease(r)
    \/ WalletPreConsume(r) \/ SubscriptionPreConsume(r) \/ RollbackToken(r)
    \/ ReserveFunding(r) \/ ReserveTokenCheck(r) \/ ReserveTokenDecrease(r)
    \/ ReserveRollback(r) \/ Succeed(r) \/ Fail(r) \/ SettleFunding(r) \/ SettleToken(r)
    \/ Refund(r) \/ ChargeViolationFee(r) \/ ChargeViolationFeeToken(r)

RefundStep(r) ==
    \/ RefundWallet(r) \/ RefundSubscription(r) \/ RefundRecord(r)
    \/ RefundExtra(r) \/ RefundToken(r)

Finished(r) == pc[r] \in RequestEnds /\ refundPc[r] \in RefundEnds

Idle == (\A r \in Requests : Finished(r)) /\ UNCHANGED vars

Next ==
    \/ \E r \in Requests : Arrive(r) \/ Reserve(r) \/ RequestStep(r) \/ RefundStep(r)
    \/ Crash
    \/ Idle

Spec == Init /\ [][Next]_vars

(* A goroutine that can run does run; whether requests arrive, and whether *)
(* a caller uses Reserve, is up to the environment.                        *)
Fairness == \A r \in Requests : WF_vars(RequestStep(r)) /\ WF_vars(RefundStep(r))

FairSpec == Spec /\ Fairness

-----------------------------------------------------------------------------
(* Properties. *)

(* The variables stay in their types: NewBillingSession, preConsume,       *)
(* Reserve, Settle and Refund never drive a session counter below zero.    *)
TypeOK ==
    /\ pc \in [Requests -> RequestLabels]
    /\ refundPc \in [Requests -> RefundLabels]
    /\ req \in [Requests -> RequestRecord]
    /\ ses \in [Requests -> Session]
    /\ userQuota \in Int
    /\ tokenRemain \in Int
    /\ subUsed \in Nat
    /\ record \in [Requests -> {"none", "consumed", "refunded"}]
    /\ paid \in [Requests -> Charge]
    /\ fee \in [Requests -> Nat]
    /\ failed \in [Requests -> BOOLEAN]

(* A request that ended without a crash and without a failed call paid     *)
(* exactly what it owes: the real price when it was served (Settle), and   *)
(* nothing when it was rejected or failed (rollback, Refund), whatever     *)
(* source it fell back to and however the steps interleaved; the token     *)
(* agrees with the funding source, except in the playground.  A refund     *)
(* that succeeds at the second or third attempt is exact as well, except   *)
(* for what an attempt gave back whose record could not be committed.      *)
Owed(r) == IF ses[r].settled THEN req[r].actual ELSE 0

ExactCharge ==
    \A r \in Requests :
        (Finished(r) /\ "lost" \notin {pc[r], refundPc[r]} /\ ~failed[r]) =>
            /\ paid[r].wallet + paid[r].sub = Owed(r) - paid[r].unmarked
            /\ paid[r].token = IF Playground(r) THEN 0 ELSE Owed(r)

(* Whatever fails and whenever the process dies, a request holds quota of  *)
(* at most one funding source, and never more than the larger of what the  *)
(* session asked for and the real price: the fallback from one source to   *)
(* the other (NewBillingSession) leaves nothing behind in the first.       *)
ChargeBounded ==
    \A r \in Requests :
        /\ paid[r].wallet = 0 \/ paid[r].sub = 0
        /\ paid[r].wallet + paid[r].sub <= Larger(req[r].actual, ses[r].effective)

(* No request is given back more than it had paid: not by a rollback, not  *)
(* by a settlement below the pre-consumption, not by a retry after a lost  *)
(* acknowledgement.  The one exception is RefundSubscriptionPreConsume     *)
(* (model/subscription.go): an attempt whose record is not committed gives *)
(* its amount back unmarked, and refundWithRetry repeats it.  Even then    *)
(* the wallet and the token are never over-refunded, and the subscription  *)
(* by at most one amount for every retry.                                  *)
NeverOverRefunded ==
    \A r \in Requests :
        /\ paid[r].wallet >= 0 /\ paid[r].token >= 0
        /\ paid[r].sub >= - paid[r].unmarked
        /\ paid[r].sub >= - ((MaxAttempts - 1) * ses[r].subPre)

(* Concurrent pre-consumptions, reservations, settlements and fees never   *)
(* push a limited subscription past its total, although each of them       *)
(* checks and writes on its own (PostConsumeUserSubscriptionDelta).        *)
SubscriptionWithinTotal == SubTotal > 0 => subUsed <= SubTotal

(* Once Settle has marked a session settled, no later step, of this or any *)
(* other request, changes what the request paid.                           *)
SettledIsFinal ==
    [][\A r \in Requests : ses[r].settled => paid'[r] = paid[r] /\ ses'[r] = ses[r]]_vars

(* Every request that arrived ends, and so does its refund goroutine, even *)
(* when every call keeps failing: refundWithRetry gives up.                *)
EveryRequestEnds == \A r \in Requests : (pc[r] # "idle") ~> Finished(r)

-----------------------------------------------------------------------------
(* The inductive strengthening of ExactCharge, ChargeBounded and           *)
(* NeverOverRefunded.                                                      *)

(* What the request's funding source, and the other one, gave so far. *)
Held(r) == IF BySubscription(r) THEN paid[r].sub ELSE paid[r].wallet
HeldElsewhere(r) == IF BySubscription(r) THEN paid[r].wallet ELSE paid[r].sub

(* What its source would hold had every refund been marked. *)
HeldUnlessUnmarked(r) == Held(r) + paid[r].unmarked

(* v is x, or more when a compensating call failed. *)
Covers(r, v, x) == v >= x /\ (~failed[r] => v = x)

(* The token's side of a session that consumed n. *)
TokenCovers(r, n) == IF Playground(r) THEN paid[r].token = 0 ELSE Covers(r, paid[r].token, n)

BeforeToken == {"idle", "choose", "tryWallet", "tokenCheck", "tokenDecrease", "rejected"}
BeforeFunding == {"fundingPreConsume", "rollback"}
Agreed == {"serving", "reserveFunding", "settle"}
Reserving == {"reserveTokenCheck", "reserveTokenDecrease", "reserveRollback"}
AfterServing == {"fee", "feeToken", "done", "lost"}

(* Nothing was taken from a funding source yet. *)
UnfundedInv(r) ==
    pc[r] \in BeforeToken \cup BeforeFunding =>
        /\ paid[r].wallet = 0 /\ paid[r].sub = 0
        /\ ses[r].preConsumed = 0 /\ ses[r].walletConsumed = 0
        /\ ses[r].subPre = 0 /\ ses[r].extra = 0
        /\ ses[r].tokenConsumed = IF pc[r] \in BeforeToken THEN 0 ELSE ses[r].effective
        /\ TokenCovers(r, ses[r].tokenConsumed)
        /\ pc[r] = "idle" => paid[r].token = 0
        /\ pc[r] = "tokenDecrease" => ~Playground(r)

(* The session is open: the three counters agree with each other, with     *)
(* what was taken from the funding source, and with the token.             *)
OpenInv(r) ==
    pc[r] \in Agreed \cup Reserving \cup {"settleToken", "refund"} =>
        /\ ses[r].tokenConsumed = ses[r].preConsumed
        /\ ses[r].preConsumed <= ses[r].effective
        /\ BySubscription(r) => ses[r].subPre + ses[r].extra = ses[r].preConsumed
        /\ TokenCovers(r, ses[r].preConsumed)
        /\ pc[r] \in Agreed => Held(r) = ses[r].preConsumed
        /\ pc[r] \in Reserving => Held(r) = ses[r].effective
        /\ pc[r] = "settleToken" => Held(r) = req[r].actual
        /\ pc[r] = "refund" => Covers(r, Held(r), ses[r].preConsumed)
        /\ pc[r] # "settleToken" /\ ~BySubscription(r) => Held(r) = ses[r].walletConsumed
        /\ pc[r] \in {"reserveTokenDecrease", "settleToken"} => ~Playground(r)

(* The session is closed and no refund was started. *)
SettledInv(r) ==
    (pc[r] \in AfterServing /\ refundPc[r] = "idle") =>
        /\ ses[r].settled => Held(r) = req[r].actual
        /\ (~failed[r] /\ pc[r] # "lost") =>
              /\ Held(r) = Owed(r)
              /\ paid[r].token = IF Playground(r) THEN 0 ELSE Owed(r)

(* The refund goroutine gives back what is still held, and no more. *)
RefundInv(r) ==
    /\ refundPc[r] # "idle" => pc[r] \in AfterServing /\ ~ses[r].settled
    /\ refundPc[r] \in {"funding", "record", "extra", "token"} =>
          TokenCovers(r, ses[r].tokenConsumed) /\ pc[r] # "lost"
    /\ (refundPc[r] = "funding" /\ ~BySubscription(r)) => Held(r) = ses[r].walletConsumed
    /\ (refundPc[r] = "funding" /\ BySubscription(r)) =>
          Covers(r, HeldUnlessUnmarked(r),
                 ses[r].extra + IF record[r] = "refunded" THEN 0 ELSE ses[r].subPre)
    /\ (refundPc[r] \in {"funding", "record"} /\ BySubscription(r)) =>
          ses[r].attempts < MaxAttempts
    /\ refundPc[r] \in {"record", "extra"} =>
          BySubscription(r) /\ Covers(r, HeldUnlessUnmarked(r), ses[r].extra)
    /\ refundPc[r] = "record" => record[r] # "refunded"
    /\ refundPc[r] = "extra" => Held(r) >= ses[r].extra - 2 * ses[r].subPre
    /\ refundPc[r] \in {"token", "done"} => Covers(r, HeldUnlessUnmarked(r), 0)
    /\ refundPc[r] = "token" => ~Playground(r)
    /\ refundPc[r] = "done" => TokenCovers(r, 0)

(* Every attempt leaves at most one amount unmarked, and only the          *)
(* subscription's refund is attempted more than once.                      *)
UnmarkedInv(r) ==
    /\ ~BySubscription(r) => ses[r].attempts = 0
    /\ ses[r].attempts = 0 => paid[r].unmarked = 0
    /\ ses[r].attempts = 1 => paid[r].unmarked <= ses[r].subPre
    /\ ses[r].attempts = 2 => paid[r].unmarked <= 2 * ses[r].subPre
    /\ "record" \notin Failing => paid[r].unmarked = 0

(* Labels and flags agree, and nothing is ever negative or too large. *)
LedgerInv(r) ==
    /\ HeldElsewhere(r) = 0
    /\ HeldUnlessUnmarked(r) >= 0 /\ paid[r].token >= 0
    /\ Held(r) >= - 2 * ses[r].subPre
    /\ Held(r) <= req[r].actual \/ Held(r) <= ses[r].effective
    /\ pc[r] \notin AfterServing => ~ses[r].settled /\ ~ses[r].refunded
    /\ pc[r] \notin AfterServing \cup {"settleToken"} => ~ses[r].fundingSettled
    /\ record[r] = "refunded" => refundPc[r] # "idle"
    /\ refundPc[r] = "idle" => ses[r].attempts = 0
    /\ UnmarkedInv(r)

SessionInv(r) ==
    /\ UnfundedInv(r)
    /\ OpenInv(r)
    /\ SettledInv(r)
    /\ RefundInv(r)
    /\ LedgerInv(r)

(* The inductive invariant: every request's counters, flags and labels     *)
(* tell exactly how much of its pre-consumption is still to be settled or  *)
(* given back.                                                             *)
BillingInv == \A r \in Requests : SessionInv(r)
=============================================================================
