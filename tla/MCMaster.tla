------------------------------- MODULE MCMaster -------------------------------
(*****************************************************************************)
(* The managers of the master for TLC: its jobs (MasterJobs), and the log of  *)
(* an execution with the streams that follow it (LogStream). Of a log the     *)
(* jobs know only whether it was saved and cancelled, and the streams nothing *)
(* of the jobs, so a behaviour is about the side that it starts with.         *)
(*****************************************************************************)
EXTENDS MasterJobs, TLC

CONSTANTS Writer, Stream, Kinds, Capacity, MaxOut, MaxChan, StreamEnv

VARIABLES log, out, writer, sub, chans, stream, managed, side

Logs == INSTANCE LogStream WITH Env <- StreamEnv

ASSUME StreamAssumption == Logs!LogStreamAssumption

logVars == <<log, out, writer, sub, chans, stream, managed>>

MasterInit == Init /\ Logs!Init /\ side \in {"jobs", "logs"}

MasterNext ==
  /\ UNCHANGED side
  /\ \/ side = "jobs" /\ Next /\ UNCHANGED logVars
     \/ side = "logs" /\ Logs!Next /\ UNCHANGED vars

MasterSpec == MasterInit /\ [][MasterNext]_<<vars, logVars, side>>

Symmetry == Permutations(Caller) \cup Permutations(Stream)

\* The types of both sides; with those of the logs, that nobody sends on a closed channel
\* or closes one twice.
MasterTypeOK == TypeOK /\ Logs!TypeOK

\* The order in which a stream shows the output (see LogStream).
StreamsInOrder == Logs!StreamsInOrder
=============================================================================
