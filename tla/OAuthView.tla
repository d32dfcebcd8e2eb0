------------------------------ MODULE OAuthView ------------------------------
(***************************************************************************)
(* The console page that authorizes an account: a device flow that waits   *)
(* up to sixteen minutes for its answer and can be canceled and started    *)
(* again, and a browser flow whose link expires after five minutes.        *)
(*                                                                         *)
(* Every flow the page starts has a number, in order.  What a canceled     *)
(* flow was waiting for still arrives; the server may even save it.        *)
(***************************************************************************)
EXTENDS Naturals

CONSTANT MaxFlows   \* bound: flows ever started

ASSUME FlowAssumption == MaxFlows \in Nat

Flows == 1 .. MaxFlows
None == 0

VARIABLES
  flows,          \* how many flows were started
  phase,          \* device flow -> where its startDevice stands
  aborted,        \* the device flows whose signal was aborted
  ctl,            \* deviceController: the flow it belongs to
  device,         \* the flow whose device code the page shows
  deviceLoading, deviceWaiting,
  loading, saving,
  link,           \* authUrl: the browser flow whose link the page shows
  expiryTimer,    \* the timer the page remembers
  timers,         \* the timers that are armed
  expired,
  success,        \* the flow the page reports as saved
  polling,        \* completions the server is working on
  saved           \* the flows whose credential the server has stored

deviceVars == <<phase, aborted, ctl, device, deviceLoading, deviceWaiting>>
linkVars == <<loading, saving, link, expiryTimer, timers, expired>>
flowVars == <<flows, polling, saved>>
oauthVars == <<deviceVars, linkVars, flowVars, success>>

OAuthInit ==
  /\ flows = 0
  /\ phase = [k \in Flows |-> "idle"]
  /\ aborted = {}
  /\ ctl = None /\ device = None
  /\ deviceLoading = FALSE /\ deviceWaiting = FALSE
  /\ loading = FALSE /\ saving = FALSE
  /\ link = None /\ expiryTimer = None /\ timers = {} /\ expired = FALSE
  /\ success = None
  /\ polling = {} /\ saved = {}

Busy == loading \/ saving \/ deviceLoading \/ deviceWaiting

\* Mutant: the link is hidden, its timer runs on.
close_KeepsTimer == link' = None /\ UNCHANGED timers

close == link' = None /\ timers' = timers \ {expiryTimer}

-----------------------------------------------------------------------------
(* The device flow.                                                        *)

\* Mutant: a late answer is used whenever the page is waiting for one.
active_AnyFlow(k) == ctl # None

\* An answer counts for the flow that holds the controller only.
active(k) == ctl = k /\ k \notin aborted

startDevice ==
  LET k == flows + 1
  IN /\ ~Busy /\ k \in Flows
     /\ close
     /\ flows' = k
     /\ phase' = [phase EXCEPT ![k] = "starting"]
     /\ ctl' = k
     /\ device' = None
     /\ deviceLoading' = TRUE
     /\ success' = None
     /\ expired' = FALSE
     /\ UNCHANGED <<aborted, deviceWaiting, loading, saving, expiryTimer, polling, saved>>

\* What the catch and finally blocks do to the page.
Ended(k) ==
  /\ phase' = [phase EXCEPT ![k] = "over"]
  /\ IF active(k)
     THEN /\ ctl' = None /\ device' = None
          /\ deviceLoading' = FALSE /\ deviceWaiting' = FALSE
     ELSE UNCHANGED <<ctl, device, deviceLoading, deviceWaiting>>
  /\ aborted' = aborted \ {k}
  /\ UNCHANGED success

\* The device code arrives, and the completion is sent.
DeviceCodeArrives(k) ==
  /\ phase[k] = "starting"
  /\ IF active(k)
     THEN /\ phase' = [phase EXCEPT ![k] = "completing"]
          /\ device' = k
          /\ deviceLoading' = FALSE /\ deviceWaiting' = TRUE
          /\ polling' = polling \cup {k}
          /\ UNCHANGED <<aborted, ctl, success>>
     ELSE Ended(k) /\ UNCHANGED polling
  /\ UNCHANGED <<linkVars, flows, saved>>

\* The server stores the credential, or gives the poll up.
ServerCompletes(k) ==
  /\ k \in polling
  /\ polling' = polling \ {k}
  /\ saved' \in {saved, saved \cup {k}}
  /\ UNCHANGED <<deviceVars, linkVars, flows, success>>

\* Mutant: any answer is taken for the confirmation.
Confirmed_Any(k) == k \notin polling

\* The answer says that the credential was saved.
Confirmed(k) == k \in saved

\* The completion is confirmed; the page goes on to the accounts.
DeviceCompleted(k) ==
  /\ phase[k] = "completing"
  /\ Confirmed(k)
  /\ IF active(k)
     THEN /\ phase' = [phase EXCEPT ![k] = "pushing"]
          /\ success' = k
          /\ device' = None
          /\ UNCHANGED <<aborted, ctl, deviceLoading, deviceWaiting>>
     ELSE Ended(k)
  /\ UNCHANGED <<linkVars, flowVars>>

\* A request fails, times out or is aborted, or the navigation does not happen.
DeviceFails(k) ==
  /\ phase[k] \in {"starting", "completing", "pushing"}
  /\ Ended(k)
  /\ UNCHANGED <<linkVars, flowVars>>

\* The controller is aborted and forgotten.
Abort ==
  /\ aborted' = aborted \cup ({ctl} \ {None})
  /\ ctl' = None /\ device' = None
  /\ deviceLoading' = FALSE /\ deviceWaiting' = FALSE
  /\ UNCHANGED phase

cancelDevice ==
  /\ deviceLoading \/ deviceWaiting
  /\ Abort
  /\ UNCHANGED <<linkVars, flowVars, success>>

-----------------------------------------------------------------------------
(* The browser flow.                                                       *)

start ==
  LET k == flows + 1
  IN /\ ~Busy /\ k \in Flows
     /\ close
     /\ flows' = k
     /\ loading' = TRUE
     /\ success' = None
     /\ expired' = FALSE
     /\ UNCHANGED <<deviceVars, saving, expiryTimer, polling, saved>>

\* The link arrives, with a timer of its own, or it does not.
LinkArrives ==
  /\ loading
  /\ loading' = FALSE
  /\ \/ /\ link' = flows
        /\ expiryTimer' = flows
        /\ timers' = timers \cup {flows}
     \/ UNCHANGED <<link, expiryTimer, timers>>
  /\ UNCHANGED <<deviceVars, flowVars, saving, expired, success>>

ExpiryFires(k) ==
  /\ k \in timers
  /\ timers' = timers \ {k}
  /\ expired' = TRUE
  /\ link' = None
  /\ UNCHANGED <<deviceVars, flowVars, loading, saving, expiryTimer, success>>

\* The pasted callback of the link is submitted.
complete ==
  /\ ~saving /\ link # None
  /\ saving' = TRUE
  /\ polling' = polling \cup {link}
  /\ UNCHANGED <<deviceVars, flows, saved, loading, link, expiryTimer, timers, expired, success>>

\* The callback is answered: the credential is saved, or an error is shown.
CompleteSettles ==
  /\ saving
  /\ saving' = FALSE
  /\ \/ /\ Confirmed(flows)
        /\ success' = flows
        /\ close
     \/ UNCHANGED <<success, link, timers>>
  /\ UNCHANGED <<deviceVars, flowVars, loading, expiryTimer, expired>>

ClosePanel ==
  /\ link # None /\ ~saving
  /\ close
  /\ UNCHANGED <<deviceVars, flowVars, loading, saving, expiryTimer, expired, success>>

\* The page goes away: its flow is aborted, its timer cleared, and what still
\* arrives finds nobody.  An abort that comes too late for the server is a
\* row that is written without the page.
UnmountOAuth ==
  /\ phase' = [k \in Flows |-> "idle"]
  /\ aborted' = {}
  /\ ctl' = None /\ device' = None
  /\ deviceLoading' = FALSE /\ deviceWaiting' = FALSE
  /\ close
  /\ loading' = FALSE /\ saving' = FALSE /\ expired' = FALSE
  /\ expiryTimer' = None
  /\ success' = None
  /\ saved' = {} /\ polling' = {}
  /\ UNCHANGED flows

UserActs == startDevice \/ cancelDevice \/ start \/ complete \/ ClosePanel

FlowStep(k) == DeviceCodeArrives(k) \/ DeviceCompleted(k) \/ DeviceFails(k)

-----------------------------------------------------------------------------
(* Properties                                                              *)

\* What the page shows of a device flow belongs to the flow it is waiting for:
\* an answer of a canceled flow never shows its code under the next one, and
\* never leaves a spinner, which would lock every button, without a request.
DeviceViewIsOurs ==
  /\ deviceLoading <=> ctl # None /\ phase[ctl] = "starting"
  /\ deviceWaiting <=> ctl # None /\ phase[ctl] \in {"completing", "pushing"}
  /\ device # None => device = ctl /\ phase[ctl] = "completing"
  /\ ctl # None => ctl \notin aborted

\* The page waits for one flow at a time, and the success it reports is that of
\* the last flow the user started, stored by the server.
SuccessIsEarned ==
  /\ success # None => success = flows /\ success \in saved
  /\ ctl # None => ~loading /\ ~saving /\ link = None /\ ctl = flows
  /\ ~(loading /\ saving)

\* A link is shown as long as its own timer runs: no link outlives its five
\* minutes and no forgotten timer takes a newer link away.
LinkHasItsTimer == timers = {link} \ {None}

-----------------------------------------------------------------------------
(* The inductive invariant behind the properties above.                    *)

\* The page's variables hold flows that were started.
OAuthTypes ==
  /\ flows \in 0 .. MaxFlows
  /\ phase \in [Flows -> {"idle", "starting", "completing", "pushing", "over"}]
  /\ aborted \subseteq 1 .. flows
  /\ ctl \in 0 .. flows /\ device \in 0 .. flows /\ success \in 0 .. flows
  /\ link \in 0 .. flows /\ expiryTimer \in 0 .. flows
  /\ timers \subseteq 1 .. flows

\* A controller stands for a flow that still runs; a link is that of the last
\* flow, remembers its own timer and is not shown while another is fetched.
OAuthInv ==
  /\ OAuthTypes
  /\ DeviceViewIsOurs
  /\ SuccessIsEarned
  /\ LinkHasItsTimer
  /\ ctl # None => phase[ctl] \in {"starting", "completing", "pushing"}
  /\ link # None => link = expiryTimer /\ ~loading
  /\ loading => flows # None
=============================================================================
