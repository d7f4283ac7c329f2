----------------------------- MODULE LuaHandler -----------------------------
(***************************************************************************)
(* One work thread and its Lua state (gamelogic.cpp, lua-handle.cpp, the   *)
(* scripts under lua/).  The thread runs the script lua_main, which        *)
(* registers parsers and handlers and at its end defines fl_handle_main;   *)
(* when asked to, it does so again in a new state and changes to that one  *)
(* if the script came to its end.  For each message it makes an array and  *)
(* calls fl_handle_main, which parses the array, releases and destroys it, *)
(* and runs the handlers of the message's proto.  Any step of a script may *)
(* raise an error, which lua_pcallk catches.                               *)
(***************************************************************************)
EXTENDS Naturals, Sequences, SequencesExt

CONSTANTS Protos,        \* numbers a message can begin with, 0 among them
          NoParse,       \* what get_proto2s_parse returns for an unknown proto
          Scripts,       \* sequences of registrations: what lua_main may do
          MaxStarts,     \* bound: runs of lua_main
          MaxMessages    \* bound: messages taken

\* The lines of all scripts.
Lines == UNION {Range(s) : s \in Scripts}

HandlerAssumption ==
    /\ 0 \in Protos
    /\ Scripts \subseteq Seq(Lines)
    /\ \A r \in Lines : r.kind \in {"handle", "parse"} /\ r.proto \in Protos /\ r.func # NoParse

VARIABLES
    lua,         \* the state in use, Unloaded before there is one
    tmpLua,      \* the state a script is running in, and the lines it has run
    step,        \* what the thread is doing
    proto,       \* first number of the message
    data,        \* the parser that made the table the handlers get
    ran,         \* handlers that have returned, in order
    array,       \* the message's ReadByteArray
    starts, messages

msgVars == <<proto, data, ran, array>>
handlerVars == <<lua, tmpLua, step, msgVars, starts, messages>>

\* A new Lua state: _proto2s_handle and _proto2s_data_parse are empty.
NewState == [script |-> <<>>, line |-> 0, main |-> FALSE,
             handle |-> [p \in Protos |-> <<>>],
             parse |-> [p \in Protos |-> NoParse]]

\* A faulty variant of NewState in which tables outlive the state they were in.
OldTables == [NewState EXCEPT !.handle = lua.handle, !.parse = lua.parse]

\* luaL_newstate for a script: nothing is left of any state before.
Fresh == NewState

HandlerInit ==
    /\ lua = NewState /\ tmpLua = NewState
    /\ step = "start"
    /\ proto = 0 /\ data = NoParse /\ ran = <<>> /\ array = "none"
    /\ starts = 0 /\ messages = 0

-----------------------------------------------------------------------------
(* Running lua_main.                                                       *)

\* At the start of the thread, and when its reload flag is found set.
Start ==
    /\ step = "start" \/ step = "loop"
    /\ starts < MaxStarts
    /\ \E s \in Scripts : tmpLua' = [Fresh EXCEPT !.script = s]
    /\ step' = IF step = "start" THEN "first" ELSE "again"
    /\ starts' = starts + 1
    /\ UNCHANGED <<lua, msgVars, messages>>

\* add_proto2s_handle appends to the proto's list; set_proto2s_parse replaces.
Register ==
    /\ step \in {"first", "again"} /\ tmpLua.line < Len(tmpLua.script)
    /\ LET r == tmpLua.script[tmpLua.line + 1] IN
       tmpLua' = IF r.kind = "handle"
                 THEN [tmpLua EXCEPT !.line = @ + 1,
                                     !.handle[r.proto] = Append(@, r.func)]
                 ELSE [tmpLua EXCEPT !.line = @ + 1, !.parse[r.proto] = r.func]
    /\ UNCHANGED <<lua, step, msgVars, starts, messages>>

\* The script ends and has defined fl_handle_main, or it raises an error: the
\* first state is kept all the same, a later one is closed.
Loaded ==
    /\ step \in {"first", "again"}
    /\ \/ /\ tmpLua.line = Len(tmpLua.script)
          /\ lua' = [tmpLua EXCEPT !.main = TRUE]
       \/ lua' = IF step = "first" THEN tmpLua ELSE lua
    /\ step' = "loop"
    /\ UNCHANGED <<tmpLua, msgVars, starts, messages>>

-----------------------------------------------------------------------------
(* One message.                                                            *)

\* The array is made; with proto 0 nothing more is done with it.
TakeMessage ==
    /\ step = "loop" /\ messages < MaxMessages
    /\ \E p \in Protos :
         /\ proto' = p
         /\ step' = IF p = 0 THEN "end" ELSE "main"
    /\ array' = "filled" /\ ran' = <<>> /\ data' = NoParse
    /\ messages' = messages + 1
    /\ UNCHANGED <<lua, tmpLua, starts>>

\* An error anywhere below lua_pcallk ends the handling of the message.
Raise ==
    /\ step' = "end"
    /\ UNCHANGED <<lua, tmpLua, msgVars, starts, messages>>

\* fl_handle_main looks both tables up and calls the parser.
Parse ==
    /\ step = "main"
    /\ lua.main /\ lua.parse[proto] # NoParse
    /\ data' = lua.parse[proto]
    /\ step' = "release"
    /\ UNCHANGED <<lua, tmpLua, proto, ran, array, starts, messages>>

\* There is no fl_handle_main or no parser, or the parser raises an error.
ParseFails == step = "main" /\ Raise

Release ==
    /\ step = "release"
    /\ array' = "released" /\ step' = "destroy"
    /\ UNCHANGED <<lua, tmpLua, proto, data, ran, starts, messages>>

Destroy ==
    /\ step = "destroy"
    /\ array' = "destroyed" /\ step' = "handle"
    /\ UNCHANGED <<lua, tmpLua, proto, data, ran, starts, messages>>

\* The handlers are called in the order of their registration.
Handle ==
    /\ step = "handle" /\ Len(ran) < Len(lua.handle[proto])
    /\ ran' = Append(ran, lua.handle[proto][Len(ran) + 1])
    /\ UNCHANGED <<lua, tmpLua, step, proto, data, array, starts, messages>>

HandleFails == step = "handle" /\ Len(ran) < Len(lua.handle[proto]) /\ Raise

\* lua_pcallk returns, and the thread forgets the array.
EndMessage ==
    /\ \/ step = "end"
       \/ step = "handle" /\ Len(ran) = Len(lua.handle[proto])
    /\ step' = "loop"
    /\ array' = "none"
    /\ UNCHANGED <<lua, tmpLua, proto, data, ran, starts, messages>>

HandlerNext ==
    \/ Start \/ Register \/ Loaded
    \/ TakeMessage \/ Parse \/ ParseFails \/ Release \/ Destroy
    \/ Handle \/ HandleFails \/ EndMessage

HandlerSpec == HandlerInit /\ [][HandlerNext]_handlerVars

-----------------------------------------------------------------------------
(* Properties.                                                             *)

\* The functions the lines of the script in use register for p.
Registered(kind, p) ==
    LET rs == SubSeq(lua.script, 1, lua.line) IN
    FlattenSeq([i \in DOMAIN rs |-> IF rs[i].kind = kind /\ rs[i].proto = p
                                    THEN <<rs[i].func>> ELSE <<>>])

\* Whatever loads succeeded or failed before, at whatever line, a message is
\* parsed by the last parser the script in use registered for its proto, and its
\* handlers run in the order that script registered them, each at most once,
\* none before the array was destroyed.  The arrays nobody ever destroys are
\* those of messages without a parsed table: proto 0, or a parse that failed.
HandledAsRegistered ==
    /\ step \in {"release", "destroy", "handle"} =>
         /\ Registered("parse", proto) # <<>>
         /\ data = Last(Registered("parse", proto))
         /\ IsPrefix(ran, Registered("handle", proto))
    /\ step \in {"handle", "end"} /\ ran # <<>> => array = "destroyed"
    /\ step = "end" => (array # "destroyed" <=> data = NoParse)
=============================================================================
