--------------------------- MODULE WifiStaProofs ---------------------------
(***************************************************************************)
(* For any staircase, timers and surroundings: a disabled module keeps the *)
(* radio off, and the status shown fits the attempt.  The second needs the *)
(* first: credentials that are edited while the module is disabled make    *)
(* "connecting and with credentials" true only if connecting could be.     *)
(***************************************************************************)
EXTENDS WifiSta, Integers, TLAPS

SwitchInv == OffWhenDisabled /\ StatusTellsAttempt

(* Every action of loop1s needs the module enabled; it keeps SwitchInv.    *)
LEMMA LoopKeepsSwitch == ASSUME SwitchInv, Loop1s PROVE SwitchInv'
<1>1. enabled /\ enabled' = enabled /\ ssid' = ssid
  BY DEF Loop1s, StartProbe, EndProbe, Connected, StepDown, GiveUp, Retry, settings
<1>2. ASSUME attempt' = attempt PROVE SwitchInv'
  BY <1>1, <1>2 DEF SwitchInv, OffWhenDisabled, StatusTellsAttempt, attempt
<1>3. ASSUME NEW r, NEW p, StartConnect(ssid, r, p), connecting \/ ssid PROVE SwitchInv'
  BY <1>1, <1>3 DEF SwitchInv, OffWhenDisabled, StatusTellsAttempt, StartConnect
<1>4. CASE StartProbe \/ EndProbe
  BY <1>2, <1>4 DEF StartProbe, EndProbe
<1>5. CASE Connected \/ GiveUp
  BY <1>1, <1>5 DEF Connected, GiveUp, SwitchInv, OffWhenDisabled, StatusTellsAttempt
<1>6. CASE StepDown
  BY <1>3, <1>6 DEF StepDown, TimedOut
<1>7. CASE Retry
  BY <1>3, <1>7 DEF Retry, Retries
<1>8. CASE UNCHANGED <<settings, attempt, rung, probe, radio>>
  BY <1>2, <1>8
<1>9. \/ StartProbe \/ EndProbe \/ Connected \/ StepDown \/ GiveUp \/ Retry
      \/ UNCHANGED <<settings, attempt, rung, probe, radio>>
  BY DEF Loop1s
<1> QED
  BY <1>4, <1>5, <1>6, <1>7, <1>8, <1>9

(* The edits of the controls keep SwitchInv. *)
LEMMA RequestKeepsSwitch == ASSUME SwitchInv, Request PROVE SwitchInv'
<1>1. ASSUME NEW b \in BOOLEAN, SetEnabled(b) PROVE SwitchInv'
  <2>1. enabled' = b /\ ssid' = ssid
    BY <1>1 DEF SetEnabled
  <2>2. CASE b /\ StartConnect(ssid, rung, pref)
    BY <2>1, <2>2 DEF SwitchInv, OffWhenDisabled, StatusTellsAttempt, StartConnect
  <2>3. CASE ~b /\ ~link' /\ ~begun' /\ ~connecting' /\ status' = "disabled"
    BY <2>3 DEF SwitchInv, OffWhenDisabled, StatusTellsAttempt
  <2> QED
    BY <1>1, <2>2, <2>3 DEF SetEnabled
<1>2. ASSUME NEW b \in BOOLEAN, SetCredentials(b) PROVE SwitchInv'
  <2>1. enabled' = enabled /\ ssid' = b
    BY <1>2 DEF SetCredentials
  <2>2. CASE enabled /\ StartConnect(b, rung, pref)
    BY <2>1, <2>2 DEF SwitchInv, OffWhenDisabled, StatusTellsAttempt, StartConnect
  <2>3. CASE ~enabled /\ UNCHANGED <<attempt, radio>>
    BY <2>1, <2>3 DEF SwitchInv, OffWhenDisabled, StatusTellsAttempt, attempt, radio
  <2> QED
    BY <1>2, <2>2, <2>3 DEF SetCredentials
<1>3. ASSUME NEW p \in Pref \cup {NoPref}, SetPref(p) PROVE SwitchInv'
  BY <1>3 DEF SetPref, SwitchInv, OffWhenDisabled, StatusTellsAttempt, attempt
<1>4. \/ \E b \in BOOLEAN : SetEnabled(b) \/ SetCredentials(b)
      \/ \E p \in Pref \cup {NoPref} : SetPref(p)
  BY DEF Request
<1> QED
  BY <1>1, <1>2, <1>3, <1>4

(* SwitchInv is inductive. *)
LEMMA SwitchInductive == ASSUME SwitchInv, [WifiNext]_wifiVars PROVE SwitchInv'
<1> USE DEF SwitchInv, OffWhenDisabled, StatusTellsAttempt, settings, attempt, radio
<1>1. CASE Loop1s
  BY <1>1, LoopKeepsSwitch
<1>2. CASE Request
  BY <1>2, RequestKeepsSwitch
<1>3. CASE Reboot
  BY <1>3 DEF Reboot
<1>4. CASE Second
  BY <1>4 DEF Second
<1>5. CASE Associate
  BY <1>5 DEF Associate, CanAssociate
<1>6. CASE Drop
  BY <1>6 DEF Drop
<1>7. CASE Surroundings
  BY <1>7 DEF Surroundings
<1>8. CASE UNCHANGED wifiVars
  BY <1>8 DEF wifiVars
<1> QED
  BY <1>1, <1>2, <1>3, <1>4, <1>5, <1>6, <1>7, <1>8 DEF WifiNext

(* Connecting means enabled, which keeps every other action harmless.      *)
LEMMA SwitchHolds == WifiSpec => []SwitchInv
<1>1. WifiInit => SwitchInv
  <2> SUFFICES ASSUME WifiInit PROVE SwitchInv
    OBVIOUS
  <2>1. enabled = TRUE /\ connecting = ssid
    BY DEF WifiInit
  <2>2. CASE ssid
    BY <2>1, <2>2 DEF WifiInit, SwitchInv, OffWhenDisabled, StatusTellsAttempt
  <2>3. CASE ~ssid
    BY <2>1, <2>3 DEF WifiInit, SwitchInv, OffWhenDisabled, StatusTellsAttempt
  <2> QED
    BY <2>2, <2>3
<1> QED
  BY <1>1, SwitchInductive, PTL DEF WifiSpec

(* onUpdate("enabled") turns the radio off, and nothing but the switch or  *)
(* a reboot turns it on again: no timer, probe or edit does.               *)
THEOREM RadioObeysSwitch == WifiSpec => []OffWhenDisabled
<1>1. SwitchInv => OffWhenDisabled
  BY DEF SwitchInv
<1> QED
  BY <1>1, SwitchHolds, PTL

(* The status the page shows is "connecting" exactly during an attempt. *)
THEOREM StatusCorrect == WifiSpec => []StatusTellsAttempt
<1>1. SwitchInv => StatusTellsAttempt
  BY DEF SwitchInv
<1> QED
  BY <1>1, SwitchHolds, PTL

-----------------------------------------------------------------------------
(* Type correctness. *)
Typed ==
  /\ clock \in 0 .. Wrap - 1 /\ started \in 0 .. Wrap - 1
  /\ next_probe \in 0 .. Wrap - 1 /\ probe_started \in 0 .. Wrap - 1
  /\ due \in BOOLEAN /\ enabled \in BOOLEAN /\ ssid \in BOOLEAN
  /\ connecting \in BOOLEAN /\ link \in BOOLEAN /\ begun \in BOOLEAN
  /\ pref \in Pref \cup {NoPref}
  /\ file \in [ssid : BOOLEAN, pref : Pref \cup {NoPref}]
  /\ status \in {"connecting", "connected", "failed", "disabled", "no credentials"}
  /\ rung \in Level /\ power \in Level /\ works \in Reach
  /\ waited \in 0 .. MaxAssociate /\ events \in 0 .. MaxEvents

LEMMA TypedSays == Typed <=> WifiTypeOK
BY DEF Typed, WifiTypeOK

(* The clock, and what is computed from it, stay below Wrap. *)
LEMMA ClockTyped ==
  /\ 0 \in 0 .. Wrap - 1 /\ 0 \in Level
  /\ 0 \in 0 .. MaxAssociate /\ 0 \in 0 .. MaxEvents
  /\ \A n \in 0 .. Wrap - 1 : (n + 1) % Wrap \in 0 .. Wrap - 1
  /\ \A n \in 0 .. Wrap - 1 : (n + PromoteInterval) % Wrap \in 0 .. Wrap - 1
BY WifiAssumption DEF Level

(* The counters, below their bounds, can take one more step. *)
LEMMA CountersTyped ==
  /\ \A n \in 0 .. MaxEvents : n < MaxEvents => n + 1 \in 0 .. MaxEvents
  /\ \A n \in 0 .. MaxAssociate : n < MaxAssociate => n + 1 \in 0 .. MaxAssociate
  /\ \A n \in Level : n < Lowest => n + 1 \in Level
BY WifiAssumption DEF Level

(* start_connect_ takes a level from the preference or from the staircase. *)
LEMMA StartConnectTyped ==
  ASSUME Typed, NEW has, NEW r \in Level, NEW p \in Pref \cup {NoPref},
         StartConnect(has, r, p)
  PROVE  /\ started' \in 0 .. Wrap - 1 /\ connecting' \in BOOLEAN
         /\ link' \in BOOLEAN /\ begun' \in BOOLEAN /\ power' \in Level
         /\ status' \in {"connecting", "connected", "failed", "disabled", "no credentials"}
<1>1. (IF p # NoPref THEN p ELSE r) \in Level
  BY WifiAssumption
<1> QED
  BY <1>1 DEF StartConnect, Typed, radio

(* /wifi.json holds what has been set, or nothing. *)
LEMMA SaveTyped ==
  ASSUME Typed, ssid' \in BOOLEAN, pref' \in Pref \cup {NoPref}, SaveCreds
  PROVE  file' \in [ssid : BOOLEAN, pref : Pref \cup {NoPref}]
<1>1. CASE file' = [ssid |-> ssid', pref |-> pref']
  BY <1>1
<1>2. CASE file' = file
  BY <1>2 DEF Typed
<1>3. CASE file' = [ssid |-> FALSE, pref |-> NoPref]
  BY <1>3
<1> QED
  BY <1>1, <1>2, <1>3 DEF SaveCreds, Nothing

LEMMA LoopTyped == ASSUME Typed, Loop1s PROVE Typed'
<1>1. /\ due' \in BOOLEAN /\ waited' \in 0 .. MaxAssociate
      /\ UNCHANGED <<clock, works, events>>
  BY ClockTyped DEF Loop1s
<1>2. CASE StartProbe \/ EndProbe
  BY <1>1, <1>2, ClockTyped DEF Typed, StartProbe, EndProbe, settings, attempt, radio
<1>3. CASE Connected
  <2>1. (clock + PromoteInterval) % Wrap \in 0 .. Wrap - 1
    BY ClockTyped DEF Typed
  <2> QED
    BY <1>1, <1>3, <2>1 DEF Typed, Connected, settings, radio
<1>4. CASE GiveUp
  BY <1>1, <1>4 DEF Typed, GiveUp, settings, probe, radio
<1>5. CASE StepDown
  <2>1. rung + 1 \in Level /\ rung' = rung + 1 /\ StartConnect(ssid, rung + 1, pref)
        /\ UNCHANGED <<settings, probe>>
    BY <1>5, CountersTyped DEF StepDown, Typed
  <2>2. pref \in Pref \cup {NoPref}
    BY DEF Typed
  <2>3. /\ started' \in 0 .. Wrap - 1 /\ connecting' \in BOOLEAN
        /\ link' \in BOOLEAN /\ begun' \in BOOLEAN /\ power' \in Level
        /\ status' \in {"connecting", "connected", "failed", "disabled", "no credentials"}
    BY <2>1, <2>2, StartConnectTyped
  <2> QED
    BY <1>1, <2>1, <2>3 DEF Typed, settings, probe
<1>6. CASE Retry
  <2>1. rung \in Level /\ pref \in Pref \cup {NoPref}
    BY DEF Typed
  <2>2. StartConnect(ssid, rung, pref) /\ UNCHANGED <<settings, rung, probe>>
    BY <1>6 DEF Retry
  <2>3. /\ started' \in 0 .. Wrap - 1 /\ connecting' \in BOOLEAN
        /\ link' \in BOOLEAN /\ begun' \in BOOLEAN /\ power' \in Level
        /\ status' \in {"connecting", "connected", "failed", "disabled", "no credentials"}
    BY <2>1, <2>2, StartConnectTyped
  <2> QED
    BY <1>1, <2>2, <2>3 DEF Typed, settings, probe
<1>7. CASE UNCHANGED <<settings, attempt, rung, probe, radio>>
  BY <1>1, <1>7 DEF Typed, settings, attempt, probe, radio
<1>8. \/ StartProbe \/ EndProbe \/ Connected \/ StepDown \/ GiveUp \/ Retry
      \/ UNCHANGED <<settings, attempt, rung, probe, radio>>
  BY DEF Loop1s
<1> QED
  BY <1>2, <1>3, <1>4, <1>5, <1>6, <1>7, <1>8

LEMMA RequestTyped == ASSUME Typed, Request PROVE Typed'
<1>1. /\ events' \in 0 .. MaxEvents /\ waited' \in 0 .. MaxAssociate
      /\ UNCHANGED <<clock, due, works>>
  BY ClockTyped, CountersTyped DEF Request, Typed
<1>2. rung \in Level /\ pref \in Pref \cup {NoPref}
  BY DEF Typed
<1> DEFINE Connects == /\ started' \in 0 .. Wrap - 1 /\ connecting' \in BOOLEAN
                       /\ link' \in BOOLEAN /\ begun' \in BOOLEAN /\ power' \in Level
                       /\ status' \in {"connecting", "connected", "failed", "disabled",
                                       "no credentials"}
<1>3. ASSUME NEW has, StartConnect(has, rung, pref) PROVE Connects
  BY <1>2, <1>3, StartConnectTyped
<1> HIDE DEF Connects
<1>4. ASSUME NEW b \in BOOLEAN, SetEnabled(b) PROVE Typed'
  <2>1. enabled' \in BOOLEAN /\ UNCHANGED <<ssid, pref, file, rung, probe>>
    BY <1>4 DEF SetEnabled
  <2>2. CASE StartConnect(ssid, rung, pref)
    BY <2>1, <2>2, <1>1, <1>3 DEF Connects, Typed, probe
  <2>3. CASE /\ link' = FALSE /\ begun' = FALSE /\ connecting' = FALSE
             /\ status' = "disabled" /\ UNCHANGED <<started, power>>
    BY <2>1, <2>3, <1>1 DEF Typed, probe
  <2> QED
    BY <1>4, <2>2, <2>3 DEF SetEnabled
<1>5. ASSUME NEW b \in BOOLEAN, SetCredentials(b) PROVE Typed'
  <2>1. /\ ssid' \in BOOLEAN /\ UNCHANGED <<enabled, pref, rung, probe>>
        /\ file' \in [ssid : BOOLEAN, pref : Pref \cup {NoPref}]
    <3>1. /\ ssid' = b /\ pref' = pref /\ SaveCreds
          /\ UNCHANGED <<enabled, rung, probe>>
      BY <1>5 DEF SetCredentials
    <3>2. ssid' \in BOOLEAN /\ pref' \in Pref \cup {NoPref}
      BY <1>2, <3>1
    <3> QED
      BY <3>1, <3>2, SaveTyped
  <2>2. CASE StartConnect(b, rung, pref)
    BY <2>1, <2>2, <1>1, <1>3 DEF Connects, Typed, probe
  <2>3. CASE UNCHANGED <<attempt, radio>>
    BY <2>1, <2>3, <1>1 DEF Typed, attempt, radio, probe
  <2> QED
    BY <1>5, <2>2, <2>3 DEF SetCredentials
<1>6. ASSUME NEW p \in Pref \cup {NoPref}, SetPref(p) PROVE Typed'
  <2>1. power' \in Level
    BY <1>6, WifiAssumption DEF SetPref, Typed
  <2>2. ssid' \in BOOLEAN /\ file' \in [ssid : BOOLEAN, pref : Pref \cup {NoPref}]
    BY <1>6, SaveTyped DEF SetPref, Typed
  <2> QED
    BY <1>1, <1>6, <2>1, <2>2, ClockTyped DEF SetPref, Typed, attempt
<1> QED
  BY <1>4, <1>5, <1>6 DEF Request

LEMMA RebootTyped == ASSUME Typed, Reboot PROVE Typed'
<1>1. events' \in 0 .. MaxEvents
  BY CountersTyped DEF Reboot, Typed
<1>2. ssid' \in BOOLEAN /\ pref' \in Pref \cup {NoPref}
  BY DEF Reboot, Typed
<1>3. (IF ssid' /\ pref' # NoPref THEN pref' ELSE 0) \in Level
  BY <1>2, WifiAssumption, ClockTyped
<1>4. CASE ssid'
  BY <1>1, <1>2, <1>3, <1>4, ClockTyped DEF Reboot, Typed
<1>5. CASE ~ssid'
  BY <1>1, <1>2, <1>3, <1>5, ClockTyped DEF Reboot, Typed
<1> QED
  BY <1>4, <1>5

(* Every variable keeps its range: the rung never leaves the staircase and *)
(* the radio is never given a power that is not a level.                   *)
THEOREM WifiTypeCorrect == WifiSpec => []WifiTypeOK
<1>1. WifiInit => Typed
  <2> SUFFICES ASSUME WifiInit PROVE Typed
    OBVIOUS
  <2>1. CASE ssid
    BY <2>1, ClockTyped DEF WifiInit, Typed
  <2>2. CASE ~ssid
    BY <2>2, ClockTyped DEF WifiInit, Typed
  <2> QED
    BY <2>1, <2>2
<1>2. Typed /\ [WifiNext]_wifiVars => Typed'
  <2> SUFFICES ASSUME Typed, [WifiNext]_wifiVars PROVE Typed'
    OBVIOUS
  <2>1. CASE Second
    <3>1. (clock + 1) % Wrap \in 0 .. Wrap - 1
      BY ClockTyped DEF Typed
    <3>2. waited' \in 0 .. MaxAssociate
      BY <2>1, ClockTyped, CountersTyped DEF Second, Typed
    <3> QED
      BY <2>1, <3>1, <3>2 DEF Second, Typed, settings, attempt, probe, radio
  <2>2. CASE Associate \/ Drop
    BY <2>2, ClockTyped DEF Associate, Drop, Typed, settings, attempt, probe
  <2>3. CASE Surroundings
    <3>1. waited' \in 0 .. MaxAssociate /\ events' \in 0 .. MaxEvents /\ works' \in Reach
      BY <2>3, ClockTyped, CountersTyped DEF Surroundings, Typed
    <3> QED
      BY <2>3, <3>1 DEF Surroundings, Typed, settings, attempt, probe, radio
  <2>4. CASE UNCHANGED wifiVars
    BY <2>4 DEF wifiVars, Typed, settings, attempt, probe, radio
  <2> QED
    BY <2>1, <2>2, <2>3, <2>4, LoopTyped, RequestTyped, RebootTyped DEF WifiNext
<1> QED
  BY <1>1, <1>2, TypedSays, PTL DEF WifiSpec
=============================================================================
