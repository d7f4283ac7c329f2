---------------------------- MODULE Environment ----------------------------
(***************************************************************************)
(* Reading the configuration (envirment.cpp).  fl_load_config reads a file *)
(* line by line: a comment is skipped, a pair is stored, with every        *)
(* $(key) in its value replaced by what key has by then, a pair whose key  *)
(* begins with @ names a file to read at this place, and a line without a  *)
(* value, or a file that cannot be read, ends the reading of all of them.  *)
(* fl_reload_config empties the environment and reads the files again.     *)
(*                                                                         *)
(* A value is a sequence of keys, for $(key), and of pieces of text that   *)
(* stand for themselves; an unset key expands to the empty sequence.       *)
(***************************************************************************)
EXTENDS Naturals, Sequences, SequencesExt

CONSTANTS Keys,        \* keys of the environment
          Texts,       \* pieces of text
          Main,        \* the file named on the command line
          Disks,       \* the file systems: the lines of every file that can be read
          MaxOpen,     \* files the process can have open
          MaxLoads     \* bound: the load at the start, and reloads

ConfigLine == [kind : {"comment", "novalue", "pair", "include"}, key : Keys, value : Seq(Keys \cup Texts)]

\* File names are texts, as values are once every $(key) is replaced.
ConfigAssumption ==
    /\ Main \in Seq(Texts) /\ MaxOpen \in Nat
    /\ \A d \in Disks : \A f \in DOMAIN d : d[f] \in Seq(ConfigLine)

VARIABLES
    disk,             \* function from file names to sequences of lines
    envirment_map,    \* the value of every key, <<>> if it has none
    frames,           \* calls of fl_load_config: file and lines read, innermost last
    opened,           \* files open
    answer,           \* what the last call that returned returned
    loads             \* loads so far

configVars == <<disk, envirment_map, frames, opened, answer, loads>>

Empty == [k \in Keys |-> <<>>]

ConfigInit ==
    /\ disk \in Disks
    /\ envirment_map = Empty
    /\ frames = <<>> /\ opened = 0
    /\ answer = "none"
    /\ loads = 0

\* s_ParseValue.
Expand(env, v) ==
    FlattenSeq([n \in DOMAIN v |-> IF v[n] \in Keys THEN env[v[n]] ELSE <<v[n]>>])

\* fl_load_config is entered, by callers: the file is opened, or the call fails.
Enter(f, callers) ==
    \/ /\ f \in DOMAIN disk /\ opened < MaxOpen
       /\ frames' = Append(callers, [file |-> f, read |-> 0])
       /\ opened' = opened + 1
       /\ answer' = "none"
    \/ /\ f \notin DOMAIN disk \/ opened = MaxOpen
       /\ frames' = callers
       /\ answer' = "false"
       /\ UNCHANGED opened

\* A faulty variant of Leave that closes the file only after the last line.
LeaveOpen(ok) ==
    /\ frames' = SubSeq(frames, 1, Len(frames) - 1)
    /\ opened' = IF ok = "true" THEN opened - 1 ELSE opened
    /\ answer' = ok

\* fclose and return.
Leave(ok) ==
    /\ frames' = SubSeq(frames, 1, Len(frames) - 1)
    /\ opened' = opened - 1
    /\ answer' = ok

\* main at the start, and fl_reload_config.
Load ==
    /\ frames = <<>> /\ loads < MaxLoads
    /\ envirment_map' = Empty
    /\ loads' = loads + 1
    /\ Enter(Main, <<>>)
    /\ UNCHANGED disk

Innermost == frames[Len(frames)]
Line == disk[Innermost.file][Innermost.read + 1]
ReadOn == [frames EXCEPT ![Len(frames)].read = @ + 1]

fl_setenv(key, value) == envirment_map' = [envirment_map EXCEPT ![key] = value]

\* fgets finds a line; what an included file returned has been looked at.
ReadLine ==
    /\ frames # <<>> /\ answer # "false"
    /\ Innermost.read < Len(disk[Innermost.file])
    /\ \/ /\ Line.kind = "comment"
          /\ frames' = ReadOn
          /\ UNCHANGED <<envirment_map, opened, answer>>
       \/ /\ Line.kind = "novalue"
          /\ Leave("false")
          /\ UNCHANGED envirment_map
       \/ /\ Line.kind = "pair"
          /\ fl_setenv(Line.key, Expand(envirment_map, Line.value))
          /\ frames' = ReadOn
          /\ UNCHANGED <<opened, answer>>
       \/ /\ Line.kind = "include"
          /\ Enter(Expand(envirment_map, Line.value), ReadOn)
          /\ UNCHANGED envirment_map
    /\ UNCHANGED <<disk, loads>>

EndOfFile ==
    /\ frames # <<>> /\ answer # "false"
    /\ Innermost.read = Len(disk[Innermost.file])
    /\ Leave("true")
    /\ UNCHANGED <<disk, envirment_map, loads>>

\* The file a line includes has failed, and this one fails with it.
Unwind ==
    /\ frames # <<>> /\ answer = "false"
    /\ Leave("false")
    /\ UNCHANGED <<disk, envirment_map, loads>>

ConfigNext == Load \/ ReadLine \/ EndOfFile \/ Unwind

ConfigSpec == ConfigInit /\ [][ConfigNext]_configVars

-----------------------------------------------------------------------------
(* Properties.                                                             *)

\* What a line, the lines of a file or a file make of an environment: whether all
\* was well, and the environment there is then.
Envs == [Keys -> Seq(Texts)]
Results == [ok : {"true", "false"}, env : Envs]
Well(env) == [ok |-> "true", env |-> env]
Fault(env) == [ok |-> "false", env |-> env]

\* read[<<f, env>>] is what the file f makes of env when a line includes it.
AfterLine(l, env, read) ==
    CASE l.kind = "comment" -> Well(env)
      [] l.kind = "novalue" -> Fault(env)
      [] l.kind = "pair" -> Well([env EXCEPT ![l.key] = Expand(env, l.value)])
      [] l.kind = "include" -> read[<<Expand(env, l.value), env>>]

\* After the first n of the lines, of which nothing is read once there is a fault.
AfterLines(lines, env, read) ==
    LET after[n \in 0 .. Len(lines)] ==
          IF n = 0 THEN Well(env)
          ELSE IF after[n - 1].ok = "false" THEN after[n - 1]
          ELSE AfterLine(lines[n], after[n - 1].env, read)
    IN  after

\* The files of d, when what they include is read by read.
ReadWith(d, read) ==
    [f \in Seq(Texts) \X Envs |->
        IF f[1] \in DOMAIN d THEN AfterLines(d[f[1]], f[2], read)[Len(d[f[1]])] ELSE Fault(f[2])]

\* What the files of d say, with room for that many of them to be open.
Reading(d) ==
    LET reading[room \in 0 .. MaxOpen] ==
          IF room = 0 THEN [f \in Seq(Texts) \X Envs |-> Fault(f[2])]
          ELSE ReadWith(d, reading[room - 1])
    IN  reading

\* After any load, of nested files that may be missing, wrong half way down or
\* include each other in a circle, every file is closed again, and answer and
\* environment are what the files say, also when it is not the first load.
LoadsAsWritten ==
    frames = <<>> /\ loads > 0 =>
        /\ opened = 0
        /\ [ok |-> answer, env |-> envirment_map] = Reading(disk)[MaxOpen][<<Main, Empty>>]
=============================================================================
