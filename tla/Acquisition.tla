------------------------------ MODULE Acquisition ------------------------------
(***************************************************************************)
(* An acquisition over ZeroMQ: detector_setup.py arms and disarms the       *)
(* detector, whose stream is what the ZMQ receiver reads.  Either the       *)
(* messages are the DCU's, or they are a plan of Plans.                     *)
(***************************************************************************)
EXTENDS ZmqReceiver

CONSTANTS Calls, Setups, Meddling, MaxCalls, Scan, Readout

\* The steps are those of the command line.  A DCU has the parameters that arm reads; a number
\* stays one, whoever sets it.
ASSUME AcquisitionAssumption ==
  /\ Scan \in Nat /\ MaxCalls \in Nat
  /\ \A c \in Calls : c.step \in {"check", "apply", "arm", "disarm", "scan"}
  /\ \A s \in Setups : /\ {"mode", "ntrigger", "nimages"} \subseteq DOMAIN s
                       /\ s["ntrigger"] \in Nat /\ s["nimages"] \in Nat
  /\ \A m \in Meddling : m[1] \in {"ntrigger", "nimages"} => m[2] \in Nat

VARIABLES settings, state, run, call, stage, asked, differ, applied, code, calls, good, meddled

Setup == INSTANCE DetectorSetup WITH stream <- plan

setupVars == <<settings, state, run, call, stage, asked, differ, applied, code, calls, good, meddled>>
acquisitionVars == <<receiverVars, setupVars>>

\* With a plan of its own the sender needs no set-up.
AcquisitionInit ==
  /\ ReceiverInit /\ Setup!Init
  /\ IF plan = <<>> THEN calls = 0
     ELSE /\ calls = MaxCalls /\ state = "na"
          /\ settings = (CHOOSE s \in Setups : TRUE)

Acquires ==
  /\ Setup!Next
  /\ UNCHANGED <<sent, pc, got, flags, staging, outVars, released, stop>>
Receives == ReceiverNext /\ UNCHANGED setupVars

AcquisitionNext == Acquires \/ Receives

\* The sender sends what it has, downstream releases, and the runtime activates the operator
\* again and again (a 100 us clock).  Nothing is asked of the tool or of its user.
AcquisitionSpec ==
  /\ AcquisitionInit /\ [][AcquisitionNext]_acquisitionVars
  /\ WF_acquisitionVars(SendMessage /\ UNCHANGED setupVars)
  /\ WF_acquisitionVars(Release /\ UNCHANGED setupVars)
  /\ WF_acquisitionVars(Compute /\ UNCHANGED setupVars)

-----------------------------------------------------------------------------
\* The items of series s downstream.
Reported(s) == SelectSeq(emitted, LAMBDA item : item.series = s)

WholeScan(s) ==
  <<Item("start", s, 0)>> \o [i \in 1 .. Scan |-> Item("image", s, i - 1)] \o <<Item("end", s, Scan)>>

\* When `scan` returns 0, the pipeline gets a series of exactly one image for every position of
\* the scan, with its START and END, whatever parameters the DCU had, was left with by failed
\* invocations or was armed for before (detector_setup.py:12, "compares each setting the pipeline
\* depends on with what the run needs ... one image per scan position").  Excepted is other
\* software that sets a parameter between the check and the arm command.
ScanReported == <>[](stop \/ meddled \/ \A s \in good : Reported(s) = WholeScan(s))
=============================================================================
