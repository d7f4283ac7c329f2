----------------------------- MODULE MCServices -----------------------------
(***************************************************************************)
(* Small instances, side by side, of five parts of the server that share   *)
(* nothing: the reader of a connection, the database pool, the             *)
(* environment, the Lua state of a work thread and the file tools.  part   *)
(* says which one a behaviour is of; the variables of the others stay as   *)
(* they are at the start.                                                  *)
(***************************************************************************)
EXTENDS FrameReader, Environment, LuaHandler, FileTools, TLC

CONSTANTS MAX_SQL_CONNECTION, Threads, NoThread, MaxHeld, MaxGets,
          k, k2, main, sub, text,    \* keys, file names and text of the files
          f, g                      \* functions of the scripts

VARIABLES part,
    s_sql_lock, s_sql_flag, pc, at, link, isFreeResult, gets    \* DatabasePool

-----------------------------------------------------------------------------
(* Frames: empty, as long as allowed, and too long.                        *)

MixedBodies == {<<>>, <<255, 3>>, <<4, 4, 4>>}
LegalBodies == {<<1>>, <<2, 3>>}

(* Files of up to two lines, the second of them missing on some disks.     *)

Reads(form, key, value) == [kind |-> form, key |-> key, value |-> value]
Pairs == {Reads("pair", k, <<sub>>), Reads("pair", k2, <<text, k>>), Reads("pair", k, <<k2, k>>)}
Includes == {Reads("include", k, <<sub>>), Reads("include", k, <<k>>), Reads("include", k, <<main>>)}
Wrong == {Reads("comment", k, <<text>>), Reads("novalue", k, <<text>>)}
MainFiles == SeqOf(Pairs \cup Includes \cup Wrong, 2)
                \cup {<<p, i, q>> : p, q \in Pairs, i \in Includes}
SubFiles == SeqOf(Wrong \cup {Reads("pair", k, <<text, k2>>), Reads("include", k, <<main>>)}, 2)
MainFile == <<main>>
FileSystems == {MainFile :> <<>>} \cup {MainFile :> a : a \in MainFiles} \cup
         {MainFile :> a @@ <<sub>> :> b : a \in MainFiles, b \in SubFiles}

(* Scripts that register parsers and handlers in different orders.         *)
Registers(form, p, func) == [kind |-> form, proto |-> p, func |-> func]
Registrations ==
    { <<>>,
      <<Registers("parse", 1, f), Registers("handle", 1, f), Registers("handle", 1, g)>>,
      <<Registers("handle", 1, f), Registers("parse", 1, g), Registers("handle", 2, f),
        Registers("parse", 1, f)>> }

-----------------------------------------------------------------------------
Pool == INSTANCE DatabasePool

ASSUME FramesAssumption /\ ConfigAssumption /\ HandlerAssumption

poolVars == <<s_sql_lock, s_sql_flag, pc, at, link, isFreeResult, gets>>
vars == <<part, frameVars, poolVars, configVars, handlerVars, fileVars>>

OneDisk == disk = Main :> <<>>
OneDirectory == kind = [n \in Names |-> IF n \in Dots THEN "dir" ELSE "absent"]

Init ==
    /\ part \in {"frames", "pool", "config", "handler", "files"}
    /\ FramesInit /\ Pool!Init /\ ConfigInit /\ HandlerInit /\ FilesInit
    /\ part # "config" => OneDisk
    /\ part # "files" => OneDirectory

PartFrames == part = "frames" /\ FramesNext
              /\ UNCHANGED <<part, poolVars, configVars, handlerVars, fileVars>>
PartPool == part = "pool" /\ Pool!Next
            /\ UNCHANGED <<part, frameVars, configVars, handlerVars, fileVars>>
PartConfig == part = "config" /\ ConfigNext
              /\ UNCHANGED <<part, frameVars, poolVars, handlerVars, fileVars>>
PartHandler == part = "handler" /\ HandlerNext
               /\ UNCHANGED <<part, frameVars, poolVars, configVars, fileVars>>
PartFiles == part = "files" /\ FilesNext
             /\ UNCHANGED <<part, frameVars, poolVars, configVars, handlerVars>>

Next == PartFrames \/ PartPool \/ PartConfig \/ PartHandler \/ PartFiles

\* The fairness of FrameReader and of DatabasePool, each in its own part.
Fairness ==
    /\ WF_frameVars(part = "frames" /\ \E n \in 1 .. Len(wire) : Arrive(n))
    /\ WF_frameVars(part = "frames" /\ Recv)
    /\ \A t \in Threads :
        /\ WF_poolVars(part = "pool" /\ Pool!TryLock(t))
        /\ WF_poolVars(part = "pool" /\ Pool!LockRandom(t))
        /\ \A i \in Pool!Conns : WF_poolVars(part = "pool" /\ Pool!Reuse(t, i))

Spec == Init /\ [][Next]_vars /\ Fairness

-----------------------------------------------------------------------------
\* Module DatabasePool: who waits for a connection gets it.
WaitEnds == Pool!WaitEnds
=============================================================================
