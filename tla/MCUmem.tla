------------------------------- MODULE MCUmem -------------------------------
(***************************************************************************)
(* Small instances of Umem.  The fill queue is handed over in some order;  *)
(* descriptors are interchangeable, so one order stands for all.           *)
(***************************************************************************)
EXTENDS Umem, TLC

CONSTANTS f1, f2, f3, w0, w1, disposal

TwoWorkers  == {w0, w1}
TwoFrames   == {f1, f2}
ThreeFrames == {f1, f2, f3}
NoWorker    == {}

\* Sound for invariants only: liveness runs do not use it.
FrameSymmetry == Permutations(Frame)
=============================================================================
