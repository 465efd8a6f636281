------------------------------ MODULE WifiSta ------------------------------
(***************************************************************************)
(* WifiStaModule: one attempt to connect after the other, with a power     *)
(* level that goes down a staircase at every timeout, a slow retry, and a  *)
(* probe that tries full power again after a while.                        *)
(*                                                                         *)
(* Power is a level: 0 the default, 1 .. Lowest the rungs of kTxSteps, so  *)
(* rung is tx_step_idx_ + 1.  The radio, the driver and the access point   *)
(* are the environment: works holds the levels at which the access point   *)
(* is reached now.  loop1s reads the link once: that it drops in the       *)
(* microseconds between two reads of one call is left out.                 *)
(***************************************************************************)
EXTENDS Integers

CONSTANTS
  Lowest,        \* number of rungs
  Wrap,          \* the millisecond clock, in seconds, wraps here
  ConnectTimeout, RetryInterval, PromoteInterval, PromoteWatch,
  MaxAssociate,  \* seconds the radio takes to associate where it can
  Reach,         \* values of works: outages, weak antennas, distant access points
  Pref,          \* levels a user may prefer
  NoPref,        \* no preference
  MaxEvents      \* bound: requests, reboots and changes of works

Level == 0 .. Lowest

ASSUME WifiAssumption ==
  /\ Lowest \in Nat /\ Wrap \in Nat \ {0} /\ MaxAssociate \in Nat /\ MaxEvents \in Nat
  /\ {ConnectTimeout, RetryInterval, PromoteInterval, PromoteWatch} \subseteq 0 .. Wrap - 1
  /\ MaxAssociate <= ConnectTimeout
  /\ Reach \subseteq SUBSET Level
  /\ Pref \subseteq Level /\ NoPref \notin Level

VARIABLES
  clock,          \* millis()
  due,            \* loop1s is due
  enabled, ssid,  \* enabled_; whether ssid_ is set
  pref,           \* tx_power_pref_dbm_
  file,           \* what load_creds_ would make of /wifi.json
  connecting, status, rung,
  started,        \* connect_start_ms_ and last_retry_ms_, always set together
  next_probe, probe_started,
  link, begun, power,  \* the radio: connected, told to connect, at a level
  works,
  waited,         \* seconds the radio could have been associated and is not
  events

settings == <<enabled, ssid, pref, file>>
attempt == <<connecting, status, started>>
probe == <<next_probe, probe_started>>
radio == <<link, begun, power>>
wifiVars == <<clock, due, settings, attempt, rung, probe, radio, works, waited, events>>

Since(t) == (clock - t + Wrap) % Wrap

(* start_connect_; WiFi.begin resets the power and may keep a link it has. *)
StartConnect(has, r, p) ==
  \/ /\ ~has
     /\ status' = "no credentials"
     /\ UNCHANGED <<connecting, started, radio>>
  \/ /\ has
     /\ power' = IF p # NoPref THEN p ELSE r
     /\ begun' = TRUE
     /\ link' \in {link, FALSE}
     /\ connecting' = TRUE
     /\ started' = clock
     /\ status' = "connecting"

(* No file, or one cut short, sets neither credentials nor preference. *)
Nothing == [ssid |-> FALSE, pref |-> NoPref]

(* save_creds_: it may not be able to open the file, which stays as it is, *)
(* or to write all of it, and reports neither.                             *)
SaveCreds == file' \in {[ssid |-> ssid', pref |-> pref'], file, Nothing}

(* A boot: load_creds_, then setup().  No file restores enabled_. *)
WifiInit ==
  /\ clock = 0 /\ due = FALSE /\ enabled = TRUE
  /\ ssid \in BOOLEAN /\ pref = NoPref
  /\ file = [ssid |-> ssid, pref |-> pref]
  /\ connecting = ssid
  /\ status = IF ssid THEN "connecting" ELSE "no credentials"
  /\ rung = 0 /\ started = 0
  /\ next_probe = 0 /\ probe_started = 0
  /\ link = FALSE /\ begun = ssid /\ power = 0
  /\ works \in Reach /\ waited = 0 /\ events = 0

-----------------------------------------------------------------------------
(* loop1s, by the part of it that runs. *)
Probing == ~connecting /\ rung > 0 /\ link

(* maybe_run_promotion_probe_: 0 stands for no probe in both variables,    *)
(* and the first comparison is not one of differences.                     *)
StartProbe ==
  /\ Probing /\ probe_started = 0
  /\ next_probe # 0 /\ clock >= next_probe
  /\ power' = 0
  /\ probe_started' = clock
  /\ UNCHANGED <<settings, attempt, rung, next_probe, link, begun>>

EndProbe ==
  /\ Probing /\ probe_started # 0
  /\ Since(probe_started) >= PromoteWatch
  /\ rung' = 0 /\ probe_started' = 0 /\ next_probe' = 0
  /\ UNCHANGED <<settings, attempt, radio>>

Connected ==
  /\ connecting /\ link
  /\ status' = "connected" /\ connecting' = FALSE
  /\ next_probe' = IF rung > 0 THEN (clock + PromoteInterval) % Wrap ELSE next_probe
  /\ UNCHANGED <<settings, started, rung, probe_started, radio>>

TimedOut == connecting /\ ~link /\ Since(started) > ConnectTimeout

(* Mutants: one rung too many; the staircase starts again at the top. *)
StepDownTooFar ==
  /\ TimedOut
  /\ rung' = rung + 1
  /\ StartConnect(ssid, rung + 1, pref)
  /\ UNCHANGED <<settings, probe>>

StepUp ==
  /\ TimedOut /\ rung < Lowest
  /\ rung' = 0
  /\ StartConnect(ssid, 0, pref)
  /\ UNCHANGED <<settings, probe>>

StepDown ==
  /\ TimedOut /\ rung < Lowest
  /\ rung' = rung + 1
  /\ StartConnect(ssid, rung + 1, pref)
  /\ UNCHANGED <<settings, probe>>

(* Mutant: the attempt is not given up. *)
GiveUpStillConnecting ==
  /\ TimedOut /\ rung = Lowest
  /\ status' = "failed"
  /\ UNCHANGED <<settings, connecting, started, rung, probe, radio>>

GiveUp ==
  /\ TimedOut /\ rung = Lowest
  /\ status' = "failed" /\ connecting' = FALSE
  /\ UNCHANGED <<settings, started, rung, probe, radio>>

Retries == ~connecting /\ ssid /\ ~link /\ Since(started) >= RetryInterval

Retry ==
  /\ Retries
  /\ StartConnect(ssid, rung, pref)
  /\ UNCHANGED <<settings, rung, probe>>

Loop1s ==
  /\ due /\ enabled
  /\ due' = FALSE
  /\ waited' = 0
  /\ \/ StartProbe \/ EndProbe \/ Connected \/ StepDown \/ GiveUp \/ Retry
     \/ /\ ~(connecting /\ link) /\ ~TimedOut /\ ~Retries
        /\ Probing => IF probe_started = 0 THEN next_probe = 0 \/ clock < next_probe
                      ELSE Since(probe_started) < PromoteWatch
        /\ UNCHANGED <<settings, attempt, rung, probe, radio>>
  /\ UNCHANGED <<clock, works, events>>

-----------------------------------------------------------------------------
(* onUpdate("enabled") *)
SetEnabled(b) ==
  /\ enabled' = b
  /\ \/ /\ b
        /\ StartConnect(ssid, rung, pref)
     \/ /\ ~b
        /\ link' = FALSE /\ begun' = FALSE
        /\ connecting' = FALSE /\ status' = "disabled"
        /\ UNCHANGED <<started, power>>
  /\ UNCHANGED <<ssid, pref, file, rung, probe>>

(* Mutant: new credentials are tried at once, also when disabled. *)
SetCredentialsConnects(has) ==
  /\ ssid' = has /\ UNCHANGED pref
  /\ SaveCreds
  /\ StartConnect(has, rung, pref)
  /\ UNCHANGED <<enabled, rung, probe>>

(* onUpdate("ssid"), onUpdate("password") *)
SetCredentials(has) ==
  /\ ssid' = has /\ UNCHANGED pref
  /\ SaveCreds
  /\ \/ enabled /\ StartConnect(has, rung, pref)
     \/ ~enabled /\ UNCHANGED <<attempt, radio>>
  /\ UNCHANGED <<enabled, rung, probe>>

(* onUpdate("tx_power_pref_dbm") *)
SetPref(p) ==
  /\ pref' = p /\ UNCHANGED ssid
  /\ SaveCreds
  /\ rung' = 0 /\ next_probe' = 0 /\ probe_started' = 0
  /\ power' = IF link /\ p # NoPref THEN p ELSE power
  /\ UNCHANGED <<enabled, attempt, link, begun>>

(* A reboot: what /wifi.json holds comes back, the clock restarts. *)
Reboot ==
  /\ events < MaxEvents
  /\ events' = events + 1
  /\ clock' = 0 /\ due' = FALSE /\ waited' = 0
  /\ enabled' = TRUE
  /\ ssid' = file.ssid /\ pref' = file.pref
  /\ connecting' = ssid' /\ begun' = ssid' /\ link' = FALSE
  /\ status' = IF ssid' THEN "connecting" ELSE "no credentials"
  /\ power' = IF ssid' /\ pref' # NoPref THEN pref' ELSE 0
  /\ started' = 0
  /\ rung' = 0 /\ next_probe' = 0 /\ probe_started' = 0
  /\ UNCHANGED <<file, works>>

Request ==
  /\ events < MaxEvents
  /\ events' = events + 1
  /\ waited' = 0
  /\ \/ \E b \in BOOLEAN : SetEnabled(b) \/ SetCredentials(b)
     \/ \E p \in Pref \cup {NoPref} : SetPref(p)
  /\ UNCHANGED <<clock, due, works>>

-----------------------------------------------------------------------------
CanAssociate == begun /\ ~link /\ power \in works

(* A second passes; a radio that can associate does so in MaxAssociate. *)
Second ==
  /\ ~(due /\ enabled)
  /\ CanAssociate => waited < MaxAssociate
  /\ waited' = IF CanAssociate THEN waited + 1 ELSE 0
  /\ clock' = (clock + 1) % Wrap
  /\ due' = TRUE
  /\ UNCHANGED <<settings, attempt, rung, probe, radio, works, events>>

Associate ==
  /\ CanAssociate
  /\ link' = TRUE /\ waited' = 0
  /\ UNCHANGED <<clock, due, settings, attempt, rung, probe, begun, power, works, events>>

Drop ==
  /\ link /\ power \notin works
  /\ link' = FALSE
  /\ UNCHANGED <<clock, due, settings, attempt, rung, probe, begun, power, works, waited, events>>

(* Somebody moves, opens a door, restarts the router. *)
Surroundings ==
  /\ events < MaxEvents
  /\ events' = events + 1
  /\ works' \in Reach \ {works}
  /\ waited' = 0
  /\ UNCHANGED <<clock, due, settings, attempt, rung, probe, radio>>

WifiNext == Loop1s \/ Request \/ Reboot \/ Second \/ Associate \/ Drop \/ Surroundings

(* core_loop calls loop1s for ever, time passes, and a radio that can      *)
(* associate does.                                                         *)
WifiSpec ==
  /\ WifiInit /\ [][WifiNext]_wifiVars
  /\ WF_wifiVars(Loop1s) /\ WF_wifiVars(Second) /\ WF_wifiVars(Associate)

-----------------------------------------------------------------------------
(* Type invariant. *)
WifiTypeOK ==
  /\ {clock, started, next_probe, probe_started} \subseteq 0 .. Wrap - 1
  /\ {due, enabled, ssid, connecting, link, begun} \subseteq BOOLEAN
  /\ pref \in Pref \cup {NoPref}
  /\ file \in [ssid : BOOLEAN, pref : Pref \cup {NoPref}]
  /\ status \in {"connecting", "connected", "failed", "disabled", "no credentials"}
  /\ rung \in Level /\ power \in Level /\ works \in Reach
  /\ waited \in 0 .. MaxAssociate /\ events \in 0 .. MaxEvents

(* While the module is disabled the radio is off, whatever timers and      *)
(* edits of credentials or power come along.                               *)
OffWhenDisabled == ~enabled => ~link /\ ~begun /\ ~connecting

(* What the page shows is what the module does: "connecting" is shown      *)
(* during an attempt and only then, as long as there are credentials.      *)
StatusTellsAttempt ==
  /\ status = "connecting" => connecting
  /\ connecting /\ ssid => status = "connecting"

(* Where a device is reached at the level it ends up with, its preference  *)
(* or the lowest rung, it is connected again and again, whatever timeouts, *)
(* failed probes, reboots and outages came before.                         *)
StaysReachable ==
  <>[](/\ enabled /\ ssid
       /\ IF pref = NoPref THEN Lowest \in works ELSE pref \in works) => []<>link
=============================================================================
