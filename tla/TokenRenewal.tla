---------------------------- MODULE TokenRenewal ----------------------------
(***************************************************************************)
(* The bearer token of the agent: pkg/auth/manager.go (Acquire, the renew  *)
(* loop and its retries) and the expiry watch of pkg/caprf/client.go for a *)
(* token that can not be renewed.                                          *)
(*                                                                         *)
(* Time is counted down: every timer holds the ticks that are left, and    *)
(* Tick runs when no timer is due.  A request lasts up to ReqMax ticks,    *)
(* the timeout of the HTTP client.  The server counts the lifetime of a    *)
(* token from the moment it issues it, the agent from the answer.          *)
(***************************************************************************)
EXTENDS Integers

CONSTANTS
    Lifetimes,              \* expires_in values, in ticks
    Margins,                \* TOKEN_RENEW_MARGIN values; 0 is the default
    Retries,                \* policy.Retries
    BackoffBase, BackoffMax,
    ReqMax,                 \* timeout of the HTTP client
    Failures                \* how a request fails: "status", "timeout"

ASSUME TokenRenewalAssumption ==
    /\ Lifetimes \subseteq Nat \ {0} /\ Margins \subseteq Nat
    /\ Retries \in Nat \ {0} /\ BackoffBase \in Nat \ {0} /\ BackoffMax \in Nat
    /\ ReqMax \in Nat /\ Failures \subseteq {"status", "timeout"}

VARIABLES
    manager,    \* there is a TOKEN_URL, so a TokenManager; else the watch
    handler,    \* a fatal handler is set
    margin,     \* policy.Margin
    tokenPhase,      \* what the goroutine does, see TTypeOK
    lifetime,   \* lifetime of the current token
    left,       \* ticks until expiresAt, 0 when it passed
    late,       \* ticks since expiresAt, up to ReqMax + 1
    serverLeft, \* ticks until the server rejects the current token
    wait,       \* ticks until the timer of the goroutine
    tokenTry,    \* attempt of renewWithRetry
    lastErr,    \* its last error
    reqLeft,    \* ticks until the HTTP client gives up
    issued,     \* the server issued a token for the request; its ticks left
    newLife,    \* expires_in of that token
    fatal,      \* the fatal handler was called
    ctxDone,    \* the context of the run is canceled
    requestFailed      \* history: some request failed

req == <<reqLeft, issued, newLife>>
cfgVars == <<manager, handler, margin>>
tokenVars == <<cfgVars, tokenPhase, lifetime, left, late, serverLeft, wait, tokenTry, lastErr,
          req, fatal, ctxDone, requestFailed>>

MinOf(a, b) == IF a <= b THEN a ELSE b
MaxOf(a, b) == IF a <= b THEN b ELSE a
Down(n) == MaxOf(n - 1, 0)

Top == CHOOSE n \in Lifetimes : \A m \in Lifetimes : m <= n

TTypeOK ==
    /\ manager \in BOOLEAN /\ handler \in BOOLEAN /\ margin \in Margins
    /\ tokenPhase \in {"boot", "acquiring", "failed", "sleeping", "check", "request", "backoff",
                  "watch", "stopped"}
    /\ lifetime \in Lifetimes \cup {0} /\ left \in 0 .. Top /\ serverLeft \in 0 .. Top
    /\ late \in 0 .. ReqMax + 1
    /\ wait \in 0 .. MaxOf(Top, BackoffMax)
    /\ tokenTry \in 0 .. Retries - 1
    /\ lastErr \in {"none", "status", "timeout", "canceled"}
    /\ reqLeft \in 0 .. ReqMax /\ issued \in 0 .. Top /\ newLife \in Lifetimes \cup {0}
    /\ fatal \in BOOLEAN /\ ctxDone \in BOOLEAN /\ requestFailed \in BOOLEAN

TInit ==
    /\ manager \in BOOLEAN /\ handler \in BOOLEAN /\ margin \in Margins
    /\ tokenPhase = "boot"
    /\ lifetime = 0 /\ left = 0 /\ late = 0 /\ serverLeft = 0
    /\ wait = 0 /\ tokenTry = 0 /\ lastErr = "none"
    /\ reqLeft = 0 /\ issued = 0 /\ newLife = 0
    /\ fatal = FALSE /\ ctxDone = FALSE /\ requestFailed = FALSE

-----------------------------------------------------------------------------
(* Policy *)

(* 20% of the lifetime by default, and at most half of it. *)
RenewMargin(m, life) == MinOf(IF m <= 0 THEN life \div 5 ELSE m, life \div 2)

(* The doubling loop stops at the cap, so it can not overflow. *)
cappedBackoff ==
    LET d[i \in Nat] ==
            IF i = 0 THEN BackoffBase
            ELSE IF d[i - 1] < BackoffMax THEN 2 * d[i - 1] ELSE d[i - 1]
    IN  [i \in 0 .. Retries |-> MinOf(d[i], BackoffMax)]

-----------------------------------------------------------------------------
(* A request to the token endpoint, external *)

BeginRequest == reqLeft' = ReqMax /\ issued' = 0 /\ newLife' = 0
EndRequest == reqLeft' = 0 /\ issued' = 0 /\ newLife' = 0

InRequest == tokenPhase \in {"acquiring", "request"}

(* The server accepts a token that it has not expired, or the bootstrap    *)
(* token, and issues the next one; the answer is on its way.               *)
ServerIssues ==
    /\ InRequest /\ newLife = 0 /\ ~ctxDone
    /\ tokenPhase = "request" => serverLeft > 0
    /\ \E l \in Lifetimes : newLife' = l /\ issued' = l
    /\ UNCHANGED <<cfgVars, tokenPhase, lifetime, left, late, serverLeft, wait, tokenTry, lastErr,
                   reqLeft, fatal, ctxDone, requestFailed>>

(* The stores that Acquire and renew make under the lock. *)
TakeToken ==
    /\ lifetime' = newLife /\ left' = newLife /\ late' = 0
    /\ serverLeft' = issued

-----------------------------------------------------------------------------
(* Acquire and the start of the renewal *)

BootstrapToken ==
    /\ tokenPhase = "boot" /\ manager
    /\ tokenPhase' = "acquiring" /\ BeginRequest
    /\ UNCHANGED <<cfgVars, lifetime, left, late, serverLeft, wait, tokenTry, lastErr,
                   fatal, ctxDone, requestFailed>>

(* Acquire, SetTokenRenewalFatalHandler and StartRenewal. *)
Acquire ==
    /\ tokenPhase = "acquiring" /\ newLife > 0
    /\ TakeToken /\ EndRequest
    /\ tokenPhase' = "sleeping"
    /\ wait' = MaxOf(newLife - RenewMargin(margin, newLife), 0)
    /\ UNCHANGED <<cfgVars, tokenTry, lastErr, fatal, ctxDone, requestFailed>>

(* The run fails: setupNetworkAndTokenFlow returns the error. *)
AcquireFails ==
    /\ tokenPhase = "acquiring"
    /\ tokenPhase' = "failed" /\ EndRequest
    /\ UNCHANGED <<cfgVars, lifetime, left, late, serverLeft, wait, tokenTry, lastErr,
                   fatal, ctxDone, requestFailed>>

-----------------------------------------------------------------------------
(* renewLoop and renewWithRetry *)

(* The top of the loop: renew the margin before expiry, at once inside it. *)
LoopWait(life, ticks) == MaxOf(ticks - RenewMargin(margin, life), 0)

RenewTimer ==
    /\ tokenPhase = "sleeping" /\ wait = 0
    /\ tokenPhase' = "check" /\ tokenTry' = 0 /\ lastErr' = "none"
    /\ UNCHANGED <<cfgVars, lifetime, left, late, serverLeft, wait, req, fatal, ctxDone, requestFailed>>

(* The end of a failed renewal: an error that wraps the end of a context   *)
(* stops the loop without a word; else the handler gets the reason, and    *)
(* without a handler the loop goes on.                                     *)
RenewalFails(err) ==
    IF err \in {"canceled", "timeout"}
    THEN tokenPhase' = "stopped" /\ UNCHANGED <<fatal, wait>>
    ELSE IF handler
    THEN tokenPhase' = "stopped" /\ fatal' = TRUE /\ UNCHANGED wait
    ELSE tokenPhase' = "sleeping" /\ wait' = LoopWait(lifetime, left) /\ UNCHANGED fatal

(* The check before an attempt: an expired token can not renew itself. *)
AttemptStarts ==
    /\ tokenPhase = "check" /\ left > 0
    /\ tokenPhase' = "request" /\ BeginRequest
    /\ UNCHANGED <<cfgVars, lifetime, left, late, serverLeft, wait, tokenTry, lastErr,
                   fatal, ctxDone, requestFailed>>

AttemptTooLate ==
    /\ tokenPhase = "check" /\ left = 0
    /\ RenewalFails(lastErr)
    /\ UNCHANGED <<cfgVars, lifetime, left, late, serverLeft, tokenTry, lastErr, req, ctxDone, requestFailed>>

Renewed ==
    /\ tokenPhase = "request" /\ newLife > 0
    /\ TakeToken /\ EndRequest
    /\ tokenPhase' = "sleeping" /\ wait' = LoopWait(newLife, newLife)
    /\ UNCHANGED <<cfgVars, tokenTry, lastErr, fatal, ctxDone, requestFailed>>

AttemptError(err) ==
    /\ lastErr' = err /\ EndRequest /\ requestFailed' = TRUE
    /\ IF tokenTry = Retries - 1
       THEN RenewalFails(err) /\ UNCHANGED tokenTry
       ELSE /\ tokenPhase' = "backoff" /\ tokenTry' = tokenTry + 1
            /\ wait' = MinOf(cappedBackoff[tokenTry], left)
            /\ UNCHANGED fatal
    /\ UNCHANGED <<cfgVars, lifetime, left, late, serverLeft, ctxDone>>

(* The answer is an error or unusable, the client timeout passed or the    *)
(* run was stopped.                                                        *)
AttemptFails ==
    /\ tokenPhase = "request"
    /\ \/ "status" \in Failures /\ ~ctxDone /\ AttemptError("status")
       \/ "timeout" \in Failures /\ reqLeft = 0 /\ AttemptError("timeout")
       \/ ctxDone /\ AttemptError("canceled")

BackoffEnds ==
    /\ tokenPhase = "backoff" /\ wait = 0
    /\ tokenPhase' = "check"
    /\ UNCHANGED <<cfgVars, lifetime, left, late, serverLeft, wait, tokenTry, lastErr,
                   req, fatal, ctxDone, requestFailed>>

-----------------------------------------------------------------------------
(* watchTokenExpiry: no TOKEN_URL, but an expiry *)

(* Mutant of StartWatch: the watch fires at the expiry. *)
StartWatch_AtExpiry ==
    /\ tokenPhase = "boot" /\ ~manager
    /\ \E l \in Lifetimes \cup {0} :
        lifetime' = l /\ left' = l /\ serverLeft' = l /\ wait' = l
    /\ tokenPhase' = "watch"
    /\ UNCHANGED <<cfgVars, late, tokenTry, lastErr, req, fatal, ctxDone, requestFailed>>

StartWatch ==
    /\ tokenPhase = "boot" /\ ~manager
    /\ \E l \in Lifetimes \cup {0} :
        /\ lifetime' = l /\ left' = l /\ serverLeft' = l
        /\ wait' = MaxOf(l - RenewMargin(margin, l), 0)
    /\ tokenPhase' = "watch"
    /\ UNCHANGED <<cfgVars, late, tokenTry, lastErr, req, fatal, ctxDone, requestFailed>>

WatchFires ==
    /\ tokenPhase = "watch" /\ wait = 0
    /\ tokenPhase' = "stopped" /\ fatal' = handler
    /\ UNCHANGED <<cfgVars, lifetime, left, late, serverLeft, wait, tokenTry, lastErr, req, ctxDone, requestFailed>>

-----------------------------------------------------------------------------

(* The run is over: a sleeping goroutine ends. *)
Stop ==
    /\ tokenPhase \in {"sleeping", "backoff", "watch"} /\ ctxDone
    /\ tokenPhase' = "stopped"
    /\ UNCHANGED <<cfgVars, lifetime, left, late, serverLeft, wait, tokenTry, lastErr,
                   req, fatal, ctxDone, requestFailed>>

Cancel ==
    /\ ~ctxDone /\ tokenPhase # "boot"
    /\ ctxDone' = TRUE
    /\ UNCHANGED <<cfgVars, tokenPhase, lifetime, left, late, serverLeft, wait, tokenTry, lastErr,
                   req, fatal, requestFailed>>

(* No timer is due. *)
TokenIdle ==
    \/ tokenPhase \in {"sleeping", "backoff", "watch"} /\ wait > 0
    \/ InRequest /\ reqLeft > 0
    \/ tokenPhase = "stopped"

Tick ==
    /\ TokenIdle
    /\ left' = Down(left) /\ serverLeft' = Down(serverLeft)
    /\ late' = IF left = 0 /\ lifetime > 0 THEN MinOf(late + 1, ReqMax + 1) ELSE late
    /\ wait' = Down(wait) /\ reqLeft' = Down(reqLeft)
    /\ issued' = Down(issued)
    /\ UNCHANGED <<cfgVars, tokenPhase, lifetime, tokenTry, lastErr, newLife, fatal, ctxDone, requestFailed>>

TokenStep ==
    \/ BootstrapToken \/ Acquire \/ AcquireFails
    \/ RenewTimer \/ AttemptStarts \/ AttemptTooLate \/ Renewed \/ AttemptFails \/ BackoffEnds
    \/ StartWatch \/ WatchFires \/ Stop

TNext == TokenStep \/ ServerIssues \/ Cancel \/ Tick

TFairness == WF_tokenVars(TokenStep) /\ WF_tokenVars(Tick)

TSpec == TInit /\ [][TNext]_tokenVars /\ TFairness

-----------------------------------------------------------------------------
(* Properties *)

(* While the token server answers, the agent never presents a token that   *)
(* the server has expired, although renewLoop counts the lifetime from the *)
(* answer and not from the issue: the margin covers both requests.         *)
TokenValidWhileAnswered ==
    manager /\ ~requestFailed /\ lifetime > 0 /\ tokenPhase \notin {"stopped", "failed"} =>
        (RenewMargin(margin, lifetime) > 2 * ReqMax => serverLeft > 0)

(* renewWithRetry gives its verdict no later than one request timeout      *)
(* after the expiry: no backoff and no further attempt starts behind it.   *)
VerdictInTime == tokenPhase \in {"check", "request", "backoff"} => late < ReqMax

(* RenewMargin is at most half the lifetime, so that a renewed token is    *)
(* not renewed again at once.                                              *)
RenewalsAreSpaced ==
    [][tokenPhase = "sleeping" /\ tokenPhase' = "check" => 2 * (lifetime - left) >= lifetime]_tokenVars

(* watchTokenExpiry ends the run while the token can still report why.     *)
WatchEndsRunInTime ==
    [][~manager /\ fatal' /\ ~fatal /\ RenewMargin(margin, lifetime) > 0 => left > 0]_tokenVars

(* A token that expires is renewed or ends the run: the fatal handler is   *)
(* called (renewLoop, watchTokenExpiry) unless the run is over already.    *)
ExpiryEndsRun == handler /\ lifetime > 0 /\ left = 0 ~> fatal \/ left > 0 \/ ctxDone

(* The only way to miss it: renewLoop takes the client timeout of the last *)
(* request for the end of its own context.  A watched token never gets     *)
(* there.                                                                  *)
ExpiryIsNoticed ==
    handler /\ lifetime > 0 /\ left = 0
        ~> fatal \/ left > 0 \/ ctxDone \/ (manager /\ lastErr = "timeout")

(* The run holds a valid token as long as the server answers, and ends in    *)
(* time when it does not: a renewal comes before expiry and not in a loop,   *)
(* a failed one gives its verdict before the token ends, and a lost token    *)
(* ends the run (acquireToken, renewLoop, watchExpiry).                      *)
TokenIsHandled ==
    /\ [](TTypeOK /\ TokenValidWhileAnswered /\ VerdictInTime)
    /\ RenewalsAreSpaced
    /\ WatchEndsRunInTime /\ ExpiryIsNoticed
=============================================================================
