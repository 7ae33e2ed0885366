----------------------------- MODULE DetectorSetup -----------------------------
(***************************************************************************)
(* tools/detector_setup.py and the detector it sets up: every invocation    *)
(* compares the DCU's parameters with what the run needs, sets them, arms,  *)
(* waits for the scan or disarms, one REST request after the other.  Any    *)
(* request may fail, before or after it took effect, and other software may *)
(* change a parameter between two of them.                                  *)
(***************************************************************************)
EXTENDS Integers, Sequences

CONSTANTS
  Calls,       \* invocations: [step, binned, frame_time], frame_time 0 when not given
  Setups,      \* parameters of a DCU before the first call
  Meddling,    \* what other software sets: <<parameter, value>>
  MaxCalls,    \* bound on the invocations
  Scan,        \* ny * nx
  Readout      \* detector_readout_time

VARIABLES
  stream,      \* messages of the DCU's stream
  settings,    \* the DCU's parameters: a function of those it has
  state,       \* of the detector: "na", "idle" or "armed"
  run,         \* the armed series: its number, triggers left, images sent, whether it is streamed
  call, stage,    \* the current invocation and where it stands ("shell": none)
  asked, differ, applied, \* of check and apply
  code,        \* exit status of the last invocation; -1: a traceback
  calls,
  good,        \* history: series of the scans that returned 0
  meddled      \* history: other software set a parameter

dcuVars  == <<stream, settings, state, run>>
toolVars == <<call, stage, asked, differ, applied, code, calls, good>>
setupVars == <<dcuVars, toolVars, meddled>>

Message(kind, s, id) == [kind |-> kind, series |-> s, id |-> id]

Init ==
  /\ settings \in Setups /\ state \in {"na", "idle"}
  /\ run = [series |-> 0, left |-> 0, per |-> 0, sent |-> 0, streamed |-> FALSE]
  /\ call = (CHOOSE c \in Calls : TRUE) /\ stage = "shell" /\ asked = 1 /\ differ = <<>>
  /\ applied = FALSE /\ code = 0 /\ calls \in {0, MaxCalls} /\ good = {} /\ meddled = FALSE

-----------------------------------------------------------------------------
\* The DCU.  Frame and count time follow one another.
Set(param, value) ==
  settings' = IF param \notin DOMAIN settings THEN settings
              ELSE [settings EXCEPT ![param] = value,
                      !["frame_time"] = IF param = "count_time" THEN value + Readout
                                        ELSE IF param = "frame_time" THEN value ELSE @,
                      !["count_time"] = IF param = "frame_time" THEN value - Readout
                                        ELSE IF param = "count_time" THEN value ELSE @]

Stream(message) == stream' = IF run'.streamed THEN Append(stream, message) ELSE stream

Armed ==
  /\ state = "idle"
  /\ state' = "armed"
  /\ run' = [series |-> run.series + 1, left |-> settings["ntrigger"], per |-> settings["nimages"],
             sent |-> 0, streamed |-> settings["mode"] = "enabled"]
  /\ Stream(Message("start", run.series + 1, 0))
  /\ UNCHANGED settings

Disarmed ==
  /\ IF state = "armed"
     THEN state' = "idle" /\ run' = [run EXCEPT !.left = 0]
          /\ Stream(Message("end", run.series, run.sent))
     ELSE UNCHANGED <<state, run, stream>>
  /\ UNCHANGED settings

\* The scan generator triggers the next position.
Trigger ==
  /\ state = "armed" /\ run.left > 0
  /\ run' = [run EXCEPT !.left = @ - 1, !.sent = @ + run.per]
  /\ stream' = IF run.streamed
               THEN stream \o [i \in 1 .. run.per |-> Message("image", run.series, run.sent + i - 1)]
               ELSE stream
  /\ UNCHANGED <<settings, state, toolVars, meddled>>

\* Other software sets a parameter in front of an arm.
Meddle ==
  /\ stage # "shell" /\ state # "armed" /\ ~meddled
  /\ \E m \in Meddling : Set(m[1], m[2])
  /\ meddled' = TRUE
  /\ UNCHANGED <<stream, state, run, toolVars>>

-----------------------------------------------------------------------------
\* Mutation: the images of a trigger stay as they are.
Needed_PerTrigger(c) ==
  <<<<"mode", "enabled">>>>
    \o (IF c.binned THEN <<<<"binning_mode", "2x2">>>> ELSE <<>>)
    \o <<<<"ntrigger", Scan>>>>

\* needed; format, compression, trigger_mode and the file writer are read and set like mode.
Needed(c) ==
  <<<<"mode", "enabled">>>>
    \o (IF c.binned THEN <<<<"binning_mode", "2x2">>>> ELSE <<>>)
    \o <<<<"ntrigger", Scan>>, <<"nimages", 1>>>>

Checks == {"check", "apply", "scan"}

\* check: its first request.
StartCheck == stage' = "check" /\ asked' = 1 /\ differ' = <<>>

\* The next invocation; Simplon asks for the API's version first.
Invoke ==
  /\ stage = "shell" /\ calls < MaxCalls
  /\ \E c \in Calls :
       /\ call' = c
       /\ IF c.step \in Checks THEN StartCheck
          ELSE stage' = c.step /\ UNCHANGED <<asked, differ>>
  /\ applied' = FALSE /\ calls' = calls + 1
  /\ UNCHANGED <<dcuVars, code, good, meddled>>

Exit(status) == stage' = "shell" /\ code' = status

\* check: the next parameter; one the DCU does not have is skipped.
Compare ==
  /\ stage = "check" /\ asked <= Len(Needed(call))
  /\ LET n == Needed(call)[asked]
     IN differ' = IF n[1] \in DOMAIN settings /\ settings[n[1]] # n[2] THEN Append(differ, n)
                  ELSE differ
  /\ asked' = asked + 1
  /\ UNCHANGED <<dcuVars, call, stage, applied, code, calls, good, meddled>>

\* The frame time, when one is asked for.
CompareFrameTime ==
  /\ stage = "check" /\ asked > Len(Needed(call))
  /\ differ' = IF call.frame_time # 0 /\ settings["frame_time"] # call.frame_time
               THEN Append(differ, <<"frame_time", call.frame_time>>) ELSE differ
  /\ stage' = "problems"
  /\ UNCHANGED <<dcuVars, call, asked, applied, code, calls, good, meddled>>

\* What apply cannot fix: binning nobody asked for, a detector that is not initialized.
Problem ==
  \/ ~call.binned /\ "binning_mode" \in DOMAIN settings /\ settings["binning_mode"] = "2x2"
  \/ state = "na"

\* main after a check.
Decide ==
  /\ stage = "problems"
  /\ IF call.step = "apply" /\ differ # <<>> /\ ~Problem /\ ~applied
     THEN stage' = "apply" /\ asked' = 1 /\ UNCHANGED code
     ELSE /\ IF differ # <<>> \/ Problem THEN Exit(1)
             ELSE IF call.step = "scan" THEN stage' = "arm" /\ UNCHANGED code
             ELSE Exit(0)
          /\ UNCHANGED asked
  /\ UNCHANGED <<dcuVars, call, differ, applied, calls, good, meddled>>

\* apply: the next parameter, behind its count time when it is the frame time.
Apply ==
  /\ stage \in {"apply", "count_time"} /\ asked <= Len(differ)
  /\ LET d == differ[asked]
     IN IF d[1] = "frame_time" /\ stage = "apply"
        THEN /\ IF d[2] - Readout <= 0
                THEN Exit(1) /\ UNCHANGED settings
                ELSE stage' = "count_time" /\ Set("count_time", d[2] - Readout) /\ UNCHANGED code
             /\ UNCHANGED asked
        ELSE stage' = "apply" /\ Set(d[1], d[2]) /\ asked' = asked + 1 /\ UNCHANGED code
  /\ UNCHANGED <<stream, state, run, call, differ, applied, calls, good, meddled>>

\* The second check of apply.
Recheck ==
  /\ stage = "apply" /\ asked > Len(differ)
  /\ StartCheck /\ applied' = TRUE
  /\ UNCHANGED <<dcuVars, call, code, calls, good, meddled>>

\* arm: the command, then the detector's state for the report.
Arm ==
  /\ stage = "arm" /\ Armed
  /\ stage' = "armed"
  /\ UNCHANGED <<call, asked, differ, applied, code, calls, good, meddled>>

ArmReported ==
  /\ stage = "armed"
  /\ IF call.step = "arm" THEN Exit(0) ELSE stage' = "scan" /\ UNCHANGED code
  /\ UNCHANGED <<dcuVars, call, asked, differ, applied, calls, good, meddled>>

\* start_scan returns, or Enter is pressed, when the scan has finished.
Scanned == run.left = 0

ScanEnds ==
  /\ stage = "scan" /\ Scanned
  /\ stage' = "disarm" /\ code' = 0
  /\ UNCHANGED <<dcuVars, call, asked, differ, applied, calls, good, meddled>>

\* start_scan raises, or Ctrl-C: the finally clause disarms.
ScanFails ==
  /\ stage = "scan"
  /\ stage' = "disarm" /\ \E status \in {2, -1} : code' = status
  /\ UNCHANGED <<dcuVars, call, asked, differ, applied, calls, good, meddled>>

Disarm ==
  /\ stage = "disarm" /\ Disarmed
  /\ stage' = "disarmed"
  /\ UNCHANGED <<call, asked, differ, applied, code, calls, good, meddled>>

DisarmReported ==
  /\ stage = "disarmed"
  /\ Exit(IF call.step = "disarm" THEN 0 ELSE code)
  /\ good' = IF call.step = "scan" /\ code = 0 THEN good \cup {run.series} ELSE good
  /\ UNCHANGED <<dcuVars, call, asked, differ, applied, calls, meddled>>

-----------------------------------------------------------------------------
\* A request fails without an effect, a reply is not understood, or Ctrl-C.
Fail ==
  /\ stage \notin {"shell", "scan"}
  /\ \E status \in {2, -1} : Exit(status)
  /\ UNCHANGED <<dcuVars, call, asked, differ, applied, calls, good, meddled>>

\* A command takes effect, and its reply is late.
ReplyLost ==
  /\ (stage = "arm" /\ Armed) \/ (stage = "disarm" /\ Disarmed)
  /\ Exit(2)
  /\ UNCHANGED <<call, asked, differ, applied, calls, good, meddled>>

Detector == Trigger \/ Meddle
Tool ==
  \/ Invoke \/ Compare \/ CompareFrameTime \/ Decide \/ Apply \/ Recheck
  \/ Arm \/ ArmReported \/ ScanEnds \/ ScanFails \/ Disarm \/ DisarmReported
  \/ Fail \/ ReplyLost

Next == Detector \/ Tool

=============================================================================
