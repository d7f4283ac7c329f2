----------------------------- MODULE FileTools -----------------------------
(***************************************************************************)
(* Listing a directory (filetools.cpp, flfiletools.cpp): opendir, then     *)
(* readdir and lstat until there is nothing more, keeping the directories, *)
(* the regular files or everything, then a Lua table of what was kept.     *)
(* Other processes change the directory meanwhile.  Names are entries of   *)
(* one directory; "." and ".." are among them.                             *)
(***************************************************************************)
EXTENDS Naturals, Sequences, SequencesExt

CONSTANTS Names,        \* names an entry can have
          Dots,         \* "." and "..", which are directories and stay
          MaxChanges,   \* bound: changes by other processes
          MaxCalls      \* bound: calls that list the directory

Kinds == {"dir", "file", "link", "absent"}

VARIABLES
    kind,       \* the directory: kind of every name
    changes,    \* so far
    call, want, \* the call, and which kinds of entry it keeps
    unread,     \* names readdir has not returned
    entry,      \* the name readdir returned last
    list,       \* std::vector of the names kept
    table,      \* the Lua table made of it
    were,       \* history: the kinds every name had since opendir
    calls       \* so far

fileVars == <<kind, changes, call, want, unread, entry, list, table, were, calls>>

FilesInit ==
    /\ kind \in {k \in [Names -> Kinds] : \A d \in Dots : k[d] = "dir"}
    /\ changes = 0
    /\ call = "idle" /\ want = {} /\ unread = {} /\ entry = "none"
    /\ list = <<>> /\ table = <<>>
    /\ were = [n \in Names |-> {}]
    /\ calls = 0

\* Another process makes, removes or replaces an entry.
Change(n) ==
    /\ changes < MaxChanges /\ n \notin Dots
    /\ \E k \in Kinds \ {kind[n]} :
         /\ kind' = [kind EXCEPT ![n] = k]
         /\ were' = IF call = "push" THEN were ELSE [were EXCEPT ![n] = @ \cup {k}]
    /\ changes' = changes + 1
    /\ UNCHANGED <<call, want, unread, entry, list, table, calls>>

\* The list is emptied; a directory that cannot be opened stays an empty list.
Opendir(kinds) ==
    /\ call = "idle" /\ calls < MaxCalls
    /\ want' = kinds
    /\ list' = <<>> /\ table' = <<>>
    /\ call' \in {"read", "push"}
    /\ calls' = calls + 1
    /\ unread' = Names
    /\ were' = [n \in Names |-> {kind[n]}]
    /\ UNCHANGED <<kind, changes, entry>>

fl_getdirs == Opendir({"dir"})
fl_getfiles == Opendir({"file"})

\* Keeps what readdir names without looking at it.
fl_getdirall == Opendir({"dir", "file", "link"})

\* readdir returns a name once; whether it returns one that came or went since
\* opendir is left open.
Readdir(n) ==
    /\ call = "read" /\ n \in unread /\ were[n] # {"absent"}
    /\ unread' = unread \ {n}
    /\ entry' = n
    /\ call' = "stat"
    /\ UNCHANGED <<kind, changes, want, list, table, were, calls>>

\* A faulty variant of Kept that follows a link, as stat would.
KeptThroughLinks(n) ==
    kind[n] \in want \/ kind[n] = "link" \/ "link" \in want

\* lstat finds the entry and its kind is wanted; fl_getdirall does not ask.
Kept(n) == kind[n] \in want \/ "link" \in want

Lstat ==
    /\ call = "stat"
    /\ list' = IF Kept(entry) THEN Append(list, entry) ELSE list
    /\ call' = "read"
    /\ UNCHANGED <<kind, changes, want, unread, entry, table, were, calls>>

Closedir ==
    /\ call = "read" /\ \A n \in unread : "absent" \in were[n]
    /\ call' = "push"
    /\ UNCHANGED <<kind, changes, want, unread, entry, list, table, were, calls>>

\* getDirs, getFiles and getAll: key i + 1 of the table is element i of the list.
PushTable ==
    /\ call = "push"
    /\ Len(table) < Len(list)
    /\ table' = Append(table, list[Len(table) + 1])
    /\ UNCHANGED <<kind, changes, call, want, unread, entry, list, were, calls>>

ReturnTable ==
    /\ call = "push" /\ Len(table) = Len(list)
    /\ call' = "idle"
    /\ UNCHANGED <<kind, changes, want, unread, entry, list, table, were, calls>>

FilesNext ==
    \/ \E n \in Names : Change(n) \/ Readdir(n)
    \/ fl_getdirs \/ fl_getfiles \/ fl_getdirall
    \/ Lstat \/ Closedir \/ PushTable \/ ReturnTable

FilesSpec == FilesInit /\ [][FilesNext]_fileVars

-----------------------------------------------------------------------------
(* Properties.                                                             *)

\* The table of a call has a name at most once, only names that were of a wanted
\* kind at some time during the call, and every name that was so throughout,
\* whatever other processes do between readdir and lstat and whatever the list
\* had in it before; when the directory cannot be opened it is empty.
ListedAsPresent ==
    call = "push" /\ Len(table) = Len(list) =>
        /\ table = list
        /\ \A i, j \in DOMAIN table : table[i] = table[j] => i = j
        /\ \A i \in DOMAIN table : were[table[i]] \cap want # {}
        /\ IF unread = Names THEN table = <<>>
           ELSE \A n \in Names : were[n] \subseteq want => Contains(table, n)
=============================================================================
