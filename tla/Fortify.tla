-------------------------------- MODULE Fortify -------------------------------
(***************************************************************************)
(* The button of the web client that funds a pool (FortifyButton.tsx, with *)
(* lib/event-client.ts, lib/webln.ts and the proxies under app/api): it    *)
(* asks for an invoice, has it paid, polls for the payment and posts the   *)
(* event.  All this is asynchronous: what was called goes on when the      *)
(* dialog has been closed, a poll is sent every three seconds whether or   *)
(* not the last was answered, and whoever comes back sets the state of the *)
(* one button and clears the timer the one pollRef names.                  *)
(*                                                                         *)
(* A session is one click on an amount: it builds an event of its own.     *)
(* The coordinator keeps a payment request for each; modules               *)
(* PaymentIntents and Coordinator have what it does with them.             *)
(***************************************************************************)
EXTENDS Naturals, FiniteSets

CONSTANTS
  MaxSessions,   \* bound on sessions
  MaxChecks      \* bound on polls sent in each session

Session == 1..MaxSessions

ASSUME FortifyAssumption == MaxSessions \in Nat /\ MaxChecks \in [Session -> Nat]

None == 0

VARIABLES
  devMode,   \* external: the coordinator has no LND
  hasWebLN,  \* external: the browser has a wallet
  step,      \* state of the button, and the session that set it
  session,   \* sessions so far
  polls,     \* sessions whose poll interval is running
  pollRef,   \* the one pollRef names
  cycles,    \* success animations whose interval is running
  cycleRef,  \* the post whose animation cycleRef names
  calls,     \* calls that have not come back
  checks,    \* polls sent in each session
  request,   \* the payment request the coordinator has
  shown,     \* external: sessions whose invoice the user or the wallet has
  paid,      \* external: sessions whose invoice is paid
  credited,  \* how often the event of each was credited
  closed,    \* history: the dialog was closed
  crossed    \* history: something came back into the dialog of a later session

fortifyVars == <<devMode, hasWebLN, step, session, polls, pollRef, cycles, cycleRef, calls, checks,
                 request, shown, paid, credited, closed, crossed>>

screen == <<step, polls, pollRef, cycles, cycleRef>>
site == <<devMode, hasWebLN>>
coordinator == <<request, shown, paid, credited>>
history == <<closed, crossed>>

SetState(at, s) == step' = [at |-> at, of |-> s]

Call(s, what, n) == [of |-> s, what |-> what, n |-> n, is |-> "sent"]

\* A continuation of session s runs.
Resume(s) == crossed' = (crossed \/ s # session) /\ UNCHANGED closed

Becomes(c, is) == calls' = (calls \ {c}) \cup {[c EXCEPT !.is = is]}

(***************************************************************************)
(* What is on the screen: a dialog or an error, each with a button that    *)
(* resets, or neither; and in the dialog the amounts to pick.              *)
(***************************************************************************)
Dismissable == step.at \notin {"idle", "cycling"}
AmountsOffered == step.at = "picking"

(***************************************************************************)
(* The user: opens the dialog, closes it, picks an amount.                 *)
(***************************************************************************)
Pick ==
  /\ step.at = "idle"
  /\ SetState("picking", session)
  /\ UNCHANGED <<session, polls, pollRef, cycles, cycleRef, calls, checks, coordinator, history>>

\* reset: the timers the refs name are cleared.
Reset ==
  /\ Dismissable
  /\ SetState("idle", session)
  /\ polls' = polls \ {pollRef}
  /\ pollRef' = None
  /\ cycles' = {p \in cycles : p.post # cycleRef}
  /\ cycleRef' = <<>>
  /\ closed' = TRUE
  /\ UNCHANGED <<session, calls, checks, coordinator, crossed>>

StartFortify ==
  /\ AmountsOffered
  /\ session < MaxSessions
  /\ session' = session + 1
  /\ SetState("requesting", session')
  /\ calls' = calls \cup {Call(session', "request", 0)}
  /\ UNCHANGED <<polls, pollRef, cycles, cycleRef, checks, coordinator, history>>

\* External: the wallet pays an invoice the user was shown or gave to WebLN.
Pay(s) ==
  /\ s \in shown
  /\ paid' = paid \cup {s}
  /\ UNCHANGED <<screen, session, calls, checks, request, shown, credited, history>>

(***************************************************************************)
(* signAndPost, with the key if it is still there.                         *)
(***************************************************************************)
SignAndPost(s, n, others) ==
  \/ /\ SetState("confirming", s)
     /\ calls' = others \cup {Call(s, "post", n)}
  \/ SetState("error", s) /\ calls' = others

(***************************************************************************)
(* POST /payreq and what startFortify does when it is answered.            *)
(***************************************************************************)
CreateRequest(c) ==
  /\ c.what = "request" /\ c.is = "sent"
  /\ request' = [request EXCEPT ![c.of] = IF devMode THEN "none" ELSE "pending"]
  /\ Becomes(c, "answered")
  /\ UNCHANGED <<screen, session, checks, shown, paid, credited, history>>

StartPoll(s) == polls' = polls \cup {s} /\ pollRef' = s

ShowInvoice(s, others) == SetState("paying", s) /\ StartPoll(s) /\ calls' = others

RequestReturns(c) ==
  LET s == c.of
      others == calls \ {c}
  IN /\ c.what = "request" /\ c.is = "answered"
     /\ Resume(s)
     /\ CASE devMode -> SignAndPost(s, 0, others) /\ UNCHANGED <<polls, pollRef>>
          [] hasWebLN /\ ~devMode -> /\ SetState("confirming", s)
                                     /\ calls' = others \cup {Call(s, "wallet", 0)}
                                     /\ UNCHANGED <<polls, pollRef>>
          [] OTHER -> ShowInvoice(s, others)
     /\ shown' = IF devMode THEN shown ELSE shown \cup {s}
     /\ UNCHANGED <<session, cycles, cycleRef, checks, request, paid, credited>>

\* payWithWebLN: a preimage, or nothing; then the invoice is shown.
WalletReturns(c) ==
  LET s == c.of
      others == calls \ {c}
  IN /\ c.what = "wallet"
     /\ Resume(s)
     /\ \/ s \in paid /\ SignAndPost(s, 0, others) /\ UNCHANGED <<polls, pollRef>>
        \/ ShowInvoice(s, others)
     /\ UNCHANGED <<session, cycles, cycleRef, checks, coordinator>>

(***************************************************************************)
(* The poll: GET /payreq/:hash every three seconds, as long as the         *)
(* interval runs.                                                          *)
(***************************************************************************)
SendCheck(s) ==
  /\ s \in polls
  /\ checks[s] < MaxChecks[s]
  /\ checks' = [checks EXCEPT ![s] = @ + 1]
  /\ calls' = calls \cup {Call(s, "check", checks'[s])}
  /\ UNCHANGED <<screen, session, coordinator, history>>

AnswerCheck(c) ==
  /\ c.what = "check" /\ c.is = "sent"
  /\ Becomes(c, IF request[c.of] = "pending" /\ c.of \in paid THEN "settled" ELSE "open")
  /\ UNCHANGED <<screen, session, checks, coordinator, history>>

\* Fault: an answer ends the poll, whatever it says.
AnyAnswer(c) == c.is \in {"settled", "open"}
Settles(c) == c.is = "settled"

\* The interval that is cleared is the one pollRef names now.
CheckReturns(c) ==
  /\ c.what = "check" /\ c.is \in {"settled", "open"}
  /\ IF Settles(c)
     THEN /\ polls' = polls \ {pollRef}
          /\ pollRef' = None
     ELSE UNCHANGED <<polls, pollRef>>
  /\ IF c.is = "settled"
     THEN Resume(c.of) /\ SignAndPost(c.of, c.n, calls \ {c})
     ELSE calls' = calls \ {c} /\ UNCHANGED <<step, history>>
  /\ UNCHANGED <<session, cycles, cycleRef, checks, coordinator>>

(***************************************************************************)
(* POST /event: the coordinator finds the request, learns from its node    *)
(* that the invoice is settled and consumes the request, and credits the   *)
(* pool.  The node and the pool are awaited: two posts may both find it.   *)
(***************************************************************************)
AcceptPost(c) ==
  /\ c.what = "post" /\ c.is = "sent"
  /\ Becomes(c, CASE devMode -> "consumed"
                  [] ~devMode /\ request[c.of] = "pending" -> "found"
                  [] OTHER -> "rejected")
  /\ UNCHANGED <<screen, session, checks, coordinator, history>>

ConsumePost(c) ==
  /\ c.what = "post" /\ c.is = "found"
  /\ IF c.of \in paid
     THEN Becomes(c, "consumed") /\ request' = [request EXCEPT ![c.of] = "none"]
     ELSE Becomes(c, "rejected") /\ UNCHANGED request
  /\ UNCHANGED <<screen, session, checks, shown, paid, credited, history>>

CreditPost(c) ==
  /\ c.what = "post" /\ c.is = "consumed"
  /\ credited' = [credited EXCEPT ![c.of] = @ + 1]
  /\ Becomes(c, "ok")
  /\ UNCHANGED <<screen, session, checks, request, shown, paid, history>>

\* The animation: an interval that cycleRef names from now on.
StartCycle(c) ==
  /\ SetState("cycling", c.of)
  /\ cycles' = cycles \cup {[post |-> <<c.of, c.n>>, over |-> FALSE]}
  /\ cycleRef' = <<c.of, c.n>>

PostReturns(c) ==
  /\ c.what = "post" /\ c.is \in {"ok", "rejected"}
  /\ Resume(c.of)
  /\ calls' = calls \ {c}
  /\ IF c.is = "ok"
     THEN StartCycle(c)
     ELSE SetState("error", c.of) /\ UNCHANGED <<cycles, cycleRef>>
  /\ UNCHANGED <<session, polls, pollRef, checks, coordinator>>

\* A tick of an animation shows its next icon,
CycleTicks(p) ==
  /\ p \in cycles
  /\ ~p.over
  /\ step # [at |-> "cycling", of |-> p.post[1]]
  /\ Resume(p.post[1])
  /\ SetState("cycling", p.post[1])
  /\ UNCHANGED <<session, polls, pollRef, cycles, cycleRef, calls, checks, coordinator>>

\* and after the last it clears the interval cycleRef names, which may be another or none:
\* then its own goes on, and does this again every time.
CycleEnds(p) ==
  /\ p \in cycles
  /\ Resume(p.post[1])
  /\ SetState("idle", p.post[1])
  /\ cycles' = {q \in (cycles \ {p}) \cup {[p EXCEPT !.over = TRUE]} : q.post # cycleRef}
  /\ cycleRef' = <<>>
  /\ UNCHANGED <<session, polls, pollRef, calls, checks, coordinator>>

\* A call fails in the network or the proxy, before or after it had its effect;
\* a poll that fails is one that came back with nothing new.
CallFails(c) ==
  /\ c.what \in {"request", "post"}
  /\ calls' = calls \ {c}
  /\ SetState("error", c.of)
  /\ Resume(c.of)
  /\ UNCHANGED <<session, polls, pollRef, cycles, cycleRef, checks, coordinator>>

\* The payment request lapses, or the coordinator is restarted and has lost it.
Forget(s) ==
  /\ request[s] = "pending"
  /\ request' = [request EXCEPT ![s] = "none"]
  /\ UNCHANGED <<screen, session, calls, checks, shown, paid, credited, history>>

-------------------------------------------------------------------------------
FortifyInit ==
  /\ devMode \in BOOLEAN
  /\ hasWebLN \in BOOLEAN
  /\ step = [at |-> "idle", of |-> None]
  /\ session = 0
  /\ polls = {}
  /\ pollRef = None
  /\ cycles = {}
  /\ cycleRef = <<>>
  /\ calls = {}
  /\ checks = [s \in Session |-> 0]
  /\ request = [s \in Session |-> "none"]
  /\ shown = {}
  /\ paid = {}
  /\ credited = [s \in Session |-> 0]
  /\ closed = FALSE
  /\ crossed = FALSE

FortifyNext ==
  /\ \/ Pick
     \/ Reset
     \/ StartFortify
     \/ \E s \in Session : Pay(s) \/ SendCheck(s) \/ Forget(s)
     \/ \E c \in calls :
          \/ CreateRequest(c)
          \/ RequestReturns(c)
          \/ WalletReturns(c)
          \/ AnswerCheck(c)
          \/ CheckReturns(c)
          \/ AcceptPost(c)
          \/ ConsumePost(c)
          \/ CreditPost(c)
          \/ PostReturns(c)
          \/ CallFails(c)
     \/ \E p \in cycles : CycleTicks(p) \/ CycleEnds(p)
  /\ UNCHANGED site

FortifySpec == FortifyInit /\ [][FortifyNext]_fortifyVars

(***************************************************************************)
(* No payment is dropped in silence, and none is reported that did not go  *)
(* through.  As long as the user closes no dialog and no call comes back   *)
(* into a later one, an invoice that was paid is credited, or being polled *)
(* for, or a call about it is under way, or an error is on the screen; and *)
(* the success animation is only shown for an event that was credited.     *)
(***************************************************************************)
PaidIsPursued ==
  /\ step.at = "cycling" => credited[step.of] > 0
  /\ ~closed /\ ~crossed =>
       \A s \in paid : \/ credited[s] > 0
                       \/ s \in polls
                       \/ \E c \in calls : c.of = s
                       \/ step.at = "error"
===============================================================================
