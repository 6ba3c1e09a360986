------------------------------- MODULE Debug --------------------------------
(***************************************************************************)
(* The debug log (debug.c): sections with a mask for each kind of output,  *)
(* and a log file that the main thread opens, closes and reopens while     *)
(* other threads write messages to it.  What a function does under         *)
(* debug_lock is one step, except that debug_file is read without the lock *)
(* by the flush at the end of do_debug, so every change of it is a step of *)
(* its own.  Of a mask the model keeps whether it lets a message through.  *)
(* Using a file that is closed may end the program.                        *)
(***************************************************************************)
EXTENDS Integers, Sequences

CONSTANTS Thread,      \* the threads that write messages
          File,        \* FILEs; one is used again when it is closed
          Name,        \* names of sections
          Setting,     \* <<t, on>>: a type and a mask that the main thread sets
          SectionMax   \* DEBUG_SECTION_MAX

ASSUME DebugAssumption ==
    /\ SectionMax \in Nat \ {0} /\ "thr" \in Name
    /\ \A set \in Setting : set[2] \in BOOLEAN

NULL == "NULL"

\* The types of output, below DEBUG_TYPE_MAX.
Type == {"PRINT", "LOG", "SYSLOG"}

VARIABLES
    locked,     \* the main thread has debug_lock
    sections,   \* debug_level_strs up to its first NULL
    levels,     \* debug_levels: the <<t, s>> whose mask lets messages through
    filename,   \* debug_filename is not NULL
    file,       \* debug_file
    open,       \* FILEs that are open
    dirty,      \* FILEs with messages that are not flushed
    call,       \* where a thread is in do_debug
    ptr,        \* the debug_file it flushes
    reopening,  \* the main thread is to open the file again
    crashed     \* "no", or what met a closed FILE or a destroyed lock

tableVars == <<sections, levels>>
fileVars == <<locked, filename, file, open, reopening>>
threadVars == <<dirty, call, ptr, crashed>>
debugVars == <<tableVars, fileVars, threadVars>>

\* debug_init has run, and libiapp_thr_init, which the programs call next, has
\* found the table empty.
DebugInit ==
    /\ sections = <<"thr">>
    /\ levels = {<<"PRINT", 1>>}
    /\ locked = FALSE /\ filename = FALSE /\ file = NULL /\ reopening = FALSE
    /\ open = {} /\ dirty = {}
    /\ call = [t \in Thread |-> "none"]
    /\ ptr = [t \in Thread |-> NULL]
    /\ crashed = "no"

\* pthread_mutex_lock returns.
LockFree == ~locked

-----------------------------------------------------------------------------
(* Sections.  Only the main thread changes them. *)

debug_register(name) ==
    /\ Len(sections) < SectionMax
    /\ sections' = Append(sections, name)
    /\ levels' = levels \ (Type \X {Len(sections) + 1})
    /\ UNCHANGED <<fileVars, threadVars>>

\* It returns at once for a type it does not know.
debug_setmask(s, t, on) ==
    /\ t \in Type /\ LockFree
    /\ levels' = IF on THEN levels \cup {<<t, s>>} ELSE levels \ {<<t, s>>}
    /\ UNCHANGED <<sections, fileVars, threadVars>>

\* The section with this name, else the first that is free.
Section(name) ==
    LET named == {i \in DOMAIN sections : sections[i] = name}
    IN  IF named = {} THEN Len(sections) + 1
        ELSE CHOOSE i \in named : \A j \in named : i <= j

\* debug_setmask_str returns for a section beyond the table, and a slip:
\* it does not.
Beyond_never(s) == FALSE
Beyond(s) == s > SectionMax

debug_setmask_str(name, t, on) ==
    /\ ~Beyond(Section(name))
    /\ debug_setmask(Section(name), t, on)

debug_setmask_str2(name, t, on) ==
    /\ Section(name) <= Len(sections)
    /\ debug_setmask(Section(name), t, on)

-----------------------------------------------------------------------------
(* The log file, opened and closed by the main thread. *)

debug_set_filename ==
    /\ LockFree
    /\ filename' = TRUE
    /\ UNCHANGED <<tableVars, locked, file, open, reopening, threadVars>>

\* debug_file_open, debug_file_close and debug_file_reopen: the lock, and
\* fclose if there is a file, ...
FileClose(again) ==
    /\ LockFree
    /\ locked' = TRUE /\ reopening' = again
    /\ open' = open \ {file} /\ dirty' = dirty \ {file}
    /\ UNCHANGED <<tableVars, filename, file, call, ptr, crashed>>

\* ... then debug_file = NULL, ...
FileNull ==
    /\ locked /\ file # NULL
    /\ file' = NULL
    /\ UNCHANGED <<tableVars, locked, filename, open, reopening, threadVars>>

\* ... then what fopen returns if there is a name, and the lock is given back.
FileOpen ==
    /\ locked /\ file = NULL
    /\ \/ UNCHANGED <<file, open>>
       \/ /\ reopening /\ filename
          /\ \E f \in File \ open : file' = f /\ open' = open \cup {f}
    /\ locked' = FALSE /\ reopening' = FALSE
    /\ UNCHANGED <<tableVars, filename, threadVars>>

\* debug_shutdown.  It is an error to destroy a lock that is used.
debug_shutdown ==
    /\ sections' = <<>>
    /\ levels' = {}
    /\ crashed' = IF \E t \in Thread : call[t] # "none" THEN "lock" ELSE "no"
    /\ UNCHANGED <<fileVars, dirty, call, ptr>>

-----------------------------------------------------------------------------
(* Messages. *)

At(t, where) == call' = [call EXCEPT ![t] = where]

\* The macro DEBUG, which reads the masks without the lock.
DEBUG(t) ==
    /\ IF \E type \in Type : <<type, 1>> \in levels THEN At(t, "do_debug") ELSE UNCHANGED call
    /\ UNCHANGED <<tableVars, fileVars, dirty, ptr, crashed>>

\* flush_file = 1, and a slip: never.
ThenFlush_never == "none"
ThenFlush == "flush"

do_debug(t) ==
    /\ call[t] = "do_debug" /\ LockFree
    /\ IF file # NULL /\ <<"LOG", 1>> \in levels
       THEN /\ At(t, ThenFlush)
            /\ dirty' = dirty \cup ({file} \cap open)
            /\ crashed' = IF file \in open THEN "no" ELSE "write"
       ELSE At(t, "none") /\ UNCHANGED <<dirty, crashed>>
    /\ UNCHANGED <<tableVars, fileVars, ptr>>

\* After the lock is given back: debug_file is read, ...
Reload(t) ==
    /\ call[t] = "flush"
    /\ ptr' = [ptr EXCEPT ![t] = file]
    /\ At(t, "fflush")
    /\ UNCHANGED <<tableVars, fileVars, dirty, crashed>>

\* ... and flushed.  fflush(NULL) flushes every file.
Flush(t) ==
    /\ call[t] = "fflush"
    /\ At(t, "none")
    /\ ptr' = [ptr EXCEPT ![t] = NULL]
    /\ dirty' = IF ptr[t] = NULL THEN {} ELSE dirty \ {ptr[t]}
    /\ crashed' \in {"no"} \cup (IF ptr[t] \in open \cup {NULL} THEN {} ELSE {"flush"})
    /\ UNCHANGED <<tableVars, fileVars>>

Logging(t) == do_debug(t) \/ Reload(t) \/ Flush(t)

DebugTypeOK ==
    /\ sections \in Seq(Name) /\ Len(sections) <= SectionMax
    /\ levels \subseteq Type \X (1..SectionMax)
    /\ locked \in BOOLEAN /\ filename \in BOOLEAN /\ reopening \in BOOLEAN
    /\ file \in File \cup {NULL} /\ open \subseteq File /\ dirty \subseteq open
    /\ call \in [Thread -> {"none", "do_debug", "flush", "fflush"}]
    /\ ptr \in [Thread -> File \cup {NULL}]
    /\ crashed \in {"no", "write", "flush", "lock"}
=============================================================================
