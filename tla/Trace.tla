------------------------------- MODULE Trace --------------------------------
(***************************************************************************)
(* The trace dispatcher of src/trace.c and the log file of                 *)
(* src/tracelog.c, used by one thread.  The program may crash: what stdio  *)
(* holds back is lost, the files stay.                                     *)
(***************************************************************************)
EXTENDS Integers, Sequences, SequencesExt

CONSTANTS
  Names,        \* log file names; the backup of a log is named after it
  DefaultName,  \* zg_logname at the start, one of Names
  Sizes,        \* legal sizes for ztrace_logctl
  DefaultSize,  \* ZLOG_FILE_SIZE
  BufLen,       \* the longest text a buffer of trace.c holds, ZTRACE_BUF_SIZE - 1
  Flags,        \* the sets of severities given to ztrace_ctl
  MaxLines      \* bound on the lines written to logs

ASSUME TraceAssumption ==
  /\ DefaultName \in Names
  /\ Sizes \subseteq Nat \ {0} /\ DefaultSize \in Nat \ {0}
  /\ BufLen \in Nat \ {0}

VARIABLES
  fn,      \* g_ztrace: the function that gets the lines, "NULL" for none
  flag,    \* g_ztrace_flag
  logname, logsize, loglen, \* zg_logname, zg_logsize, zg_loglen
  pf,      \* zg_logpf is open
  file,    \* [Names -> sequences of lines]
  buffer,  \* the lines that stdio has not written to the open log yet
  backup,  \* [Names -> sequences of lines]
  logged,  \* [Names -> sequences of lines]: all lines that were written to a log when it was open
  gap,     \* gap[n]: how many these were when a crash or a failing call last lost some
  count    \* lines so far

dispatchVars == <<fn, flag>>
logVars == <<logname, logsize, loglen, pf, file, buffer, backup, logged, gap, count>>
traceVars == <<dispatchVars, logVars>>

Severities == {"DBG", "MSG", "WAR", "ERR", "INF"}

Restarted ==
  /\ fn' = "NULL" /\ flag' = Severities
  /\ logname' = DefaultName /\ logsize' = DefaultSize /\ loglen' = 0
  /\ pf' = FALSE /\ buffer' = <<>>

TraceInit ==
  /\ fn = "NULL" /\ flag = Severities
  /\ logname = DefaultName /\ logsize = DefaultSize /\ loglen = 0
  /\ pf = FALSE /\ buffer = <<>> /\ count = 0
  /\ file = [n \in Names |-> <<>>] /\ backup = file /\ logged = file
  /\ gap = [n \in Names |-> 0]

-----------------------------------------------------------------------------
(* The log file.                                                           *)

\* The length of a file in bytes; upto[i] is that of its first i lines.
Size(lines) ==
  LET upto[i \in 0..Len(lines)] == IF i = 0 THEN 0 ELSE upto[i - 1] + lines[i].len
  IN  upto[Len(lines)]

\* Mutated form: mode "w".
OpenedToWrite == IF pf THEN file[logname] ELSE <<>>

\* What is in the log when it is open: fopen's mode is "a".
Opened == file[logname]

\* Mutated form: the length of the log that was open before.
LengthWithStale(len) == loglen + len

\* zg_loglen with one more line; ztrace_logopen takes it from the end of the file.
LengthWith(len) == (IF pf THEN loglen ELSE Size(Opened)) + len

\* What fclose may leave of the file with the lines q that stdio still holds: if it fails,
\* some of the last ones are missing.
Closed(q) == {Opened \o SubSeq(q, 1, k) : k \in 0..Len(q)}

\* ztrace_logbackup, the size not reached.
Grow(line, len) ==
  /\ LengthWith(len) < logsize
  /\ pf' = TRUE /\ loglen' = LengthWith(len)
  /\ buffer' = Append(buffer, line)
  /\ file' = [file EXCEPT ![logname] = Opened]
  /\ UNCHANGED <<backup, gap>>

\* ztrace_logbackup at the size: closed, backup removed, renamed, opened with "w".  None of
\* the results is looked at: lines are lost if the close fails, or if the rename fails and the
\* file is opened, and so emptied, in its place.
Backup(line, len) ==
  /\ LengthWith(len) >= logsize
  /\ \E removed, renamed, opened \in BOOLEAN, closed \in Closed(Append(buffer, line)) :
       /\ backup' = [backup EXCEPT ![logname] = IF renamed THEN closed
                                                 ELSE IF removed THEN <<>> ELSE @]
       /\ file' = [file EXCEPT ![logname] = IF renamed \/ opened THEN <<>> ELSE closed]
       /\ pf' = opened
       /\ gap' = [gap EXCEPT ![logname] =
            IF closed # Opened \o Append(buffer, line) \/ (opened /\ ~renamed)
              THEN Len(logged[logname]) + 1 ELSE @]
  /\ loglen' = 0 /\ buffer' = <<>>

\* What is written of a text: the rest of a longer one does not fit the buffer.
Text(len) == IF len <= BufLen THEN len ELSE BufLen

\* ztrace_log with a length that may be more than what the buffer holds of the text; nothing
\* is written to a log that cannot be opened.
Log(len) ==
  LET line == [no |-> count, len |-> Text(len)]
  IN  /\ count < MaxLines /\ count' = count + 1
      /\ \/ ~pf /\ UNCHANGED <<loglen, pf, file, buffer, backup, logged, gap>>
         \/ /\ Grow(line, len) \/ Backup(line, len)
            /\ logged' = [logged EXCEPT ![logname] = Append(@, line)]
      /\ UNCHANGED <<logname, logsize>>

\* ztrace_logctl closes the log, takes the name if there is one, and the size if it is legal.
LogCtl ==
  /\ \E n \in Names, s \in Sizes \cup {DefaultSize} : logname' = n /\ logsize' = s
  /\ \E closed \in Closed(buffer) :
       /\ file' = [file EXCEPT ![logname] = closed]
       /\ gap' = [gap EXCEPT ![logname] =
            IF closed # Opened \o buffer THEN Len(logged[logname]) ELSE @]
  /\ pf' = FALSE /\ buffer' = <<>>
  /\ UNCHANGED <<loglen, backup, logged, count, dispatchVars>>

\* ztrace_logflush, or stdio by itself.
LogFlush ==
  /\ buffer # <<>>
  /\ file' = [file EXCEPT ![logname] = @ \o buffer] /\ buffer' = <<>>
  /\ UNCHANGED <<logname, logsize, loglen, pf, backup, logged, gap, count, dispatchVars>>

Crash ==
  /\ Restarted
  /\ gap' = [gap EXCEPT ![logname] = IF buffer # <<>> THEN Len(logged[logname]) ELSE @]
  /\ UNCHANGED <<file, backup, logged, count>>

-----------------------------------------------------------------------------
(* The dispatcher.                                                         *)

\* ztrace_reg and ztrace_reg_0copy: the latter's buffer function is compiled out.
Reg(f) == fn' = f /\ UNCHANGED <<flag, logVars>>
Reg0copy == fn # "ztrace_log" /\ Reg("ztrace_log")

Ctl(f) == flag' = f /\ UNCHANGED <<fn, logVars>>

\* A line whose severity is set goes to the registered function, with the length that
\* vsnprintf returns: that of the whole text, also when the buffer cuts it.
Trace(severity, len) ==
  /\ fn = "ztrace_log" /\ severity \in flag
  /\ Log(len)
  /\ UNCHANGED dispatchVars

\* Time, severity and text.  Behind a text that is cut the line's end is written outside the
\* buffer: the line has none, and what else comes of it is left out but for a crash ...
Zdbgx == \E len \in {2, BufLen + 1} : Trace("DBG", len)
Zmsgx == \E len \in {2, BufLen + 1} : Trace("MSG", len)
Zwarx == \E len \in {2, BufLen + 1} : Trace("WAR", len)
Zerrx == \E len \in {2, BufLen + 1} : Trace("ERR", len)
Zinfx == \E len \in {2, BufLen + 1} : Trace("INF", len)
\* ... or the text alone.
Zorg == \E len \in {1, BufLen + 1} : Trace("DBG", len)

TraceNext ==
  \/ \E f \in {"NULL", "ztrace_console", "ztrace_log"} : Reg(f)
  \/ Reg0copy
  \/ \E f \in Flags : Ctl(f)
  \/ Zdbgx \/ Zmsgx \/ Zwarx \/ Zerrx \/ Zinfx \/ Zorg
  \/ LogCtl \/ LogFlush \/ Crash

TraceSpec == TraceInit /\ [][TraceNext]_traceVars

-----------------------------------------------------------------------------
Kept(n) == backup[n] \o file[n] \o (IF n = logname THEN buffer ELSE <<>>)

\* The lines written to log n since some of its lines were lost.
Since(n) == SubSeq(logged[n], gap[n] + 1, Len(logged[n]))

\* The backup and the log hold lines that were written to the log, in their order, and of those
\* since a crash or a failing call last lost some the last ones without a gap: changing names,
\* closing, rotation and a restart drop only lines older than the backup (tracelog.c:35-98).
LogSuffix ==
  \A n \in Names :
    LET kept == Kept(n)
    IN  /\ IsSuffix(kept, Since(n)) \/ IsSuffix(Since(n), kept)
        /\ kept = <<>> => Since(n) = <<>>
        /\ \A i \in DOMAIN kept : \E j \in DOMAIN logged[n] : kept[i] = logged[n][j]
        /\ \A i, j \in DOMAIN kept : i < j => kept[i].no < kept[j].no

\* An open log is shorter than its maximum size, which may have become smaller while it was
\* closed; zg_loglen is at least its length, and more after a text that was cut
\* (tracelog.c:42-43, 54-62 with trace.c:309-311).
LogBounded == pf => /\ Size(file[logname] \o buffer) <= loglen
                    /\ loglen < logsize
=============================================================================
