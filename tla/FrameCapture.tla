----------------------------- MODULE FrameCapture -----------------------------
(***************************************************************************)
(* The process in a container (screenshotter-worker.rs): it loads a disc,  *)
(* emulates it from one vsync to the next and writes <frame>.png into the  *)
(* output directory of its game at fixed intervals.                        *)
(*                                                                         *)
(* Every `expect` ends the process with an error; it may also be killed    *)
(* between any two steps (a timeout, docker kill).  The buttons that are   *)
(* pressed are left out.                                                   *)
(***************************************************************************)
EXTENDS Naturals, FiniteSets

CONSTANTS Containers,
          Discs,     \* what may be in the input file
          NoDisc,
          Outs,      \* output directories
          Rates,     \* vsyncs per second of a disc
          Intervals, \* intervals after the first screenshot
          MaxTorn    \* bound: write errors that go unnoticed

VARIABLES proc,    \* where the process is
          disc,    \* what it has loaded
          rate,    \* framerate
          clock,   \* vsyncs so far
          frame,   \* the number of the next screenshot
          shots    \* the files in each output directory

(* A screenshot: its number, when it was taken, of which disc, and whether *)
(* all of it is in the file.                                               *)
Shot == [frame : Nat, at : Nat, of : Discs, whole : BOOLEAN]

CaptureInit ==
  /\ proc = [c \in Containers |-> "created"]
  /\ disc = [c \in Containers |-> NoDisc]
  /\ rate = [c \in Containers |-> 0]
  /\ clock = [c \in Containers |-> 0]
  /\ frame = [c \in Containers |-> 0]
  /\ shots = [o \in Outs |-> {}]

Running(c) == proc[c] \in {"emulating", "writing"}

Torn == UNION {{s \in shots[o] : ~s.whole} : o \in Outs}

(* File::create truncates a file of that name.                             *)
Save(c, o, whole) ==
  shots' = [shots EXCEPT ![o] =
              {s \in @ : s.frame # frame[c]}
                \cup {[frame |-> frame[c], at |-> clock[c], of |-> disc[c], whole |-> whole]}]

Enter(c, place) == proc' = [proc EXCEPT ![c] = place]

(* The disc, whatever the file holds, and the BIOS.  drive: a second is    *)
(* emulated, but the first number is that of two.                          *)
Boot(c, d) ==
  /\ proc[c] = "created"
  /\ disc' = [disc EXCEPT ![c] = d]
  /\ \E r \in Rates : /\ rate' = [rate EXCEPT ![c] = r]
                      /\ clock' = [clock EXCEPT ![c] = r]
                      /\ frame' = [frame EXCEPT ![c] = r * 2]
  /\ Enter(c, "writing")
  /\ UNCHANGED shots

IsLast(c) == frame[c] = rate[c] * 2 * (Intervals + 1)

(* take_screenshot.  The PNG writer and its buffer are flushed when they   *)
(* are dropped, which hides an error.                                      *)
Write(c, o) ==
  /\ proc[c] = "writing"
  /\ \E whole \in BOOLEAN : /\ whole \/ Cardinality(Torn) < MaxTorn
                            /\ Save(c, o, whole)
  /\ Enter(c, IF IsLast(c) THEN "done" ELSE "emulating")
  /\ UNCHANGED <<disc, rate, clock, frame>>

(* Mutant: the number is not advanced by every vsync.                      *)
EmulateCountsOnce(c) ==
  /\ proc[c] = "emulating"
  /\ clock' = [clock EXCEPT ![c] = @ + rate[c] * 2]
  /\ frame' = [frame EXCEPT ![c] = @ + rate[c]]
  /\ Enter(c, "writing")
  /\ UNCHANGED <<disc, rate, shots>>

(* Two seconds.                                                            *)
Emulate(c) ==
  /\ proc[c] = "emulating"
  /\ clock' = [clock EXCEPT ![c] = @ + rate[c] * 2]
  /\ frame' = [frame EXCEPT ![c] = @ + rate[c] * 2]
  /\ Enter(c, "writing")
  /\ UNCHANGED <<disc, rate, shots>>

(* The process panics, or it is killed; perhaps amidst a screenshot.       *)
Stop(c, o) ==
  /\ proc[c] = "created" \/ Running(c)
  /\ \/ UNCHANGED shots
     \/ proc[c] = "writing" /\ Save(c, o, FALSE)
  /\ Enter(c, "stopped")
  /\ UNCHANGED <<disc, rate, clock, frame>>

CaptureTypeOK ==
  /\ proc \in [Containers -> {"created", "emulating", "writing", "done", "stopped"}]
  /\ disc \in [Containers -> Discs \cup {NoDisc}]
  /\ \A c \in Containers : disc[c] = NoDisc => proc[c] \in {"created", "stopped"}
  /\ rate \in [Containers -> Rates \cup {0}]
  /\ clock \in [Containers -> Nat]
  /\ frame \in [Containers -> Nat]
  /\ shots \in [Outs -> SUBSET Shot]
=============================================================================
