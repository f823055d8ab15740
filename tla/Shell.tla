------------------------------- MODULE Shell -------------------------------
(***************************************************************************)
(* init.c and the shell's main loop and runcmd (sh.c): which processes a   *)
(* line starts, what their descriptors refer to, and who waits for whom.   *)
(*                                                                         *)
(* A step is one system call, or several with nothing in between that      *)
(* another process can tell.  A program reads its standard input to the    *)
(* end and exits: on a pipe, the end comes when nobody has the write side  *)
(* open.  fork, exec, open and pipe may fail at any time.                  *)
(***************************************************************************)
EXTENDS ShParse, TLC

CONSTANTS NPROC, NOFILE, NPipes, Tokens, MaxTokens, RunLines

ASSUME ShellAssumption == NPROC \in Nat /\ NPROC > 2 /\ NOFILE >= 5 /\ MAXARGS > 0

Slots == 0 .. NPROC - 1
Init0 == 0                      \* the slot of init
Fds0 == 0 .. NOFILE - 1
Closed == [kind |-> "closed"]
Console == [kind |-> "console"]
File == [kind |-> "file"]
End(i, side) == [kind |-> "pipe", id |-> i, side |-> side]
Nothing == [type |-> "nothing"]

VARIABLES line,        \* what was typed
          typed,       \* the line has been run (one is)
          pc, cmd, parent, fds,
          p01,         \* p01[p]: runcmd's p[2]
          fg,          \* fg[p]: p runs a part of the line not followed by &
          failed,      \* some fork1 panicked
          shell,       \* init's pid: the slot of sh
          halted       \* init exited, and the kernel panicked

procs == <<pc, cmd, parent, fds, p01, fg>>
vars == <<line, typed, procs, failed, shell, halted>>

Children(p) == {q \in Slots : pc[q] # "unused" /\ parent[q] = p}
Lowest(f) == Min({i \in Fds0 : f[i] = Closed})
Dup(f, i) == [f EXCEPT ![Lowest(f)] = f[i]]
Close(f, S) == [i \in Fds0 |-> IF i \in S THEN Closed ELSE f[i]]
AllClosed == [i \in Fds0 |-> Closed]
Holds(p, x) == \E i \in Fds0 : fds[p][i] = x

-----------------------------------------------------------------------------
(* System calls, as the shell uses them *)

\* exit: close everything, give the children to init.
Exit(p) ==
  /\ pc' = [pc EXCEPT ![p] = "zombie"]
  /\ cmd' = [cmd EXCEPT ![p] = Nothing]
  /\ parent' = [q \in Slots |-> IF q \in Children(p) THEN Init0 ELSE parent[q]]
  /\ fds' = [fds EXCEPT ![p] = AllClosed]
  /\ p01' = [p01 EXCEPT ![p] = <<>>]
  /\ UNCHANGED fg

\* fork1: a child that starts at `at` with command c, or panic.
Fork(p, at, c, f, next) ==
  /\ \E q \in Slots :
       /\ pc[q] = "unused" /\ \A o \in 0 .. q - 1 : pc[o] # "unused"
       /\ pc' = [pc EXCEPT ![q] = at, ![p] = next]
       /\ cmd' = [cmd EXCEPT ![q] = c]
       /\ parent' = [parent EXCEPT ![q] = p]
       /\ fds' = [fds EXCEPT ![q] = fds[p]]
       /\ p01' = [p01 EXCEPT ![q] = p01[p]]
       /\ fg' = [fg EXCEPT ![q] = f]
  /\ UNCHANGED failed

Fork1(p, at, c, f, next) ==
  Fork(p, at, c, f, next) \/ (Exit(p) /\ failed' = TRUE)

\* wait: reap the first zombie among the children and go on at `next`; at once
\* if there are no children.
Reapable(p) == {q \in Children(p) : pc[q] = "zombie"}
Wait(p, next) ==
  IF Children(p) = {}
  THEN pc' = [pc EXCEPT ![p] = next] /\ UNCHANGED <<parent, fg>>
  ELSE /\ Reapable(p) # {}
       /\ LET q == Min(Reapable(p))
          IN  /\ pc' = [pc EXCEPT ![q] = "unused", ![p] = next]
              /\ parent' = [parent EXCEPT ![q] = Init0]
              /\ fg' = [fg EXCEPT ![q] = FALSE]

Same == UNCHANGED <<line, typed, shell, halted>>

-----------------------------------------------------------------------------
(* runcmd.  pc "run" is its entry.  *)

RunExec(p) ==
  /\ pc[p] = "run" /\ cmd[p].type = "EXEC"
  /\ \/ cmd[p].argc > 0 /\ pc' = [pc EXCEPT ![p] = "program"] /\ cmd' = [cmd EXCEPT ![p] = Nothing]
        /\ UNCHANGED <<parent, fds, p01, fg>>
     \/ Exit(p)
  /\ Same /\ UNCHANGED failed

RunRedir(p) ==
  /\ pc[p] = "run" /\ cmd[p].type = "REDIR"
  /\ \/ /\ fds' = [fds EXCEPT ![p] = LET f == Close(@, {cmd[p].fd}) IN [f EXCEPT ![Lowest(f)] = File]]
        /\ cmd' = [cmd EXCEPT ![p] = @.cmd]
        /\ UNCHANGED <<pc, parent, p01, fg>>
     \/ Exit(p)
  /\ Same /\ UNCHANGED failed

RunList(p) ==
  /\ pc[p] = "run" /\ cmd[p].type = "LIST"
  /\ Fork1(p, "run", cmd[p].left, fg[p], "list") /\ Same

ListWait(p) ==
  /\ pc[p] = "list" /\ Wait(p, "run")
  /\ cmd' = [cmd EXCEPT ![p] = @.right]
  /\ UNCHANGED <<fds, p01, failed>> /\ Same

RunBack(p) ==
  /\ pc[p] = "run" /\ cmd[p].type = "BACK"
  /\ Fork1(p, "run", cmd[p].cmd, FALSE, "exit") /\ Same

\* pipe(p): the two lowest descriptors, on a pipe nobody has open.
RunPipe(p) ==
  /\ pc[p] = "run" /\ cmd[p].type = "PIPE"
  /\ \/ LET i == Min({k \in NPipes : \A q \in Slots, s \in {"r", "w"} : ~Holds(q, End(k, s))})
            f == [fds[p] EXCEPT ![Lowest(fds[p])] = End(i, "r")]
        IN  /\ fds' = [fds EXCEPT ![p] = [f EXCEPT ![Lowest(f)] = End(i, "w")]]
            /\ p01' = [p01 EXCEPT ![p] = <<Lowest(fds[p]), Lowest(f)>>]
            /\ pc' = [pc EXCEPT ![p] = "pipe1"]
            /\ UNCHANGED <<cmd, parent, fg>>
     \/ Exit(p)
  /\ Same /\ UNCHANGED failed

PipeLeft(p) == pc[p] = "pipe1" /\ Fork1(p, "left", cmd[p].left, fg[p], "pipe2") /\ Same
PipeRight(p) == pc[p] = "pipe2" /\ Fork1(p, "right", cmd[p].right, fg[p], "pipe3") /\ Same

\* A child's descriptors without the last close.
SideNoClose(f, p, std, i) == Close(Dup(Close(f, {std}), p[i]), {p[1]})

\* close(std), dup(p[i]), close(p[0]), close(p[1]).
Side(f, p, std, i) == Close(Dup(Close(f, {std}), p[i]), {p[1], p[2]})

PipeChild(p) ==
  /\ pc[p] \in {"left", "right"}
  /\ fds' = [fds EXCEPT ![p] = IF pc[p] = "left" THEN Side(@, p01[p], 1, 2) ELSE Side(@, p01[p], 0, 1)]
  /\ pc' = [pc EXCEPT ![p] = "run"]
  /\ p01' = [p01 EXCEPT ![p] = <<>>]
  /\ UNCHANGED <<cmd, parent, fg, failed>> /\ Same

\* What the parent closes, and without the write side.
ReadSide(p) == {p01[p][1]}
BothSides(p) == {p01[p][1], p01[p][2]}

PipeClose(p) ==
  /\ pc[p] = "pipe3"
  /\ fds' = [fds EXCEPT ![p] = Close(@, BothSides(p))]
  /\ pc' = [pc EXCEPT ![p] = "wait1"]
  /\ UNCHANGED <<cmd, parent, p01, fg, failed>> /\ Same

\* Two waits for the two sides, and one.
WaitOnce(l) == "exit"
WaitTwice(l) == IF l = "wait1" THEN "wait2" ELSE "exit"

PipeWait(p) ==
  /\ pc[p] \in {"wait1", "wait2"}
  /\ Wait(p, WaitTwice(pc[p]))
  /\ UNCHANGED <<cmd, fds, p01, failed>> /\ Same

RunExit(p) == pc[p] = "exit" /\ Exit(p) /\ UNCHANGED failed /\ Same

\* A program ends when its input does.
ProgramEnds(p) ==
  /\ pc[p] = "program"
  /\ LET in == fds[p][0]
     IN  in.kind = "pipe" => \A q \in Slots : ~Holds(q, End(in.id, "w"))
  /\ Exit(p) /\ UNCHANGED failed /\ Same

-----------------------------------------------------------------------------
(* main of sh.c *)

\* gets, a token at a time: every line up to MaxTokens, and those of RunLines.
Gets(p, tok) ==
  /\ pc[p] = "prompt" /\ ~typed
  /\ Len(line) < MaxTokens \/ \E l \in RunLines : IsPrefix(Append(line, tok), l)
  /\ line' = Append(line, tok)
  /\ UNCHANGED <<typed, procs, failed, shell, halted>>

\* The line is erased at the console.
Erase(p) ==
  /\ pc[p] = "prompt" /\ ~typed /\ line # <<>>
  /\ line' = <<>>
  /\ UNCHANGED <<typed, procs, failed, shell, halted>>

\* The line is complete; those of RunLines are run.
Enter(p) ==
  /\ pc[p] = "prompt" /\ ~typed /\ line \in RunLines
  /\ typed' = TRUE
  /\ Fork1(p, "parse", Nothing, TRUE, "shwait")
  /\ UNCHANGED <<line, shell, halted>>

Parse(p) ==
  /\ pc[p] = "parse"
  /\ LET c == parsecmd(line)
     IN  IF c = Panic THEN Exit(p)
         ELSE /\ cmd' = [cmd EXCEPT ![p] = c] /\ pc' = [pc EXCEPT ![p] = "run"]
              /\ UNCHANGED <<parent, fds, p01, fg>>
  /\ UNCHANGED failed /\ Same

ShWait(p) == pc[p] = "shwait" /\ Wait(p, "prompt") /\ UNCHANGED <<cmd, fds, p01, failed>> /\ Same

\* End of file instead of a line.
ShEof(p) == pc[p] = "prompt" /\ typed /\ Exit(p) /\ UNCHANGED failed /\ Same

-----------------------------------------------------------------------------
(* main of init.c *)

InitFork ==
  /\ pc[Init0] = "init"
  /\ \/ /\ Fork(Init0, "sh", Nothing, FALSE, "initwait")
        /\ shell' = Min({q \in Slots : pc[q] = "unused"})
        /\ UNCHANGED halted
     \/ halted' = TRUE /\ UNCHANGED <<procs, failed, shell>>
  /\ UNCHANGED <<line, typed>>

\* exec of sh; its open("console") loop finds 0, 1 and 2 open.
ShStart(p) ==
  /\ pc[p] = "sh"
  /\ \/ pc' = [pc EXCEPT ![p] = "prompt"] /\ UNCHANGED <<cmd, parent, fds, p01, fg>>
     \/ Exit(p)
  /\ UNCHANGED failed /\ Same

\* Reap orphans until sh is reaped, then start it again.
InitWait ==
  /\ pc[Init0] = "initwait"
  /\ Wait(Init0, IF Reapable(Init0) # {} /\ Min(Reapable(Init0)) # shell THEN "initwait" ELSE "init")
  /\ UNCHANGED <<cmd, fds, p01, failed>> /\ Same

-----------------------------------------------------------------------------
Init ==
  /\ line = <<>> /\ typed = FALSE /\ failed = FALSE /\ halted = FALSE /\ shell = 0
  /\ pc = [p \in Slots |-> IF p = Init0 THEN "init" ELSE "unused"]
  /\ cmd = [p \in Slots |-> Nothing] /\ parent = [p \in Slots |-> Init0]
  /\ fds = [p \in Slots |-> [i \in Fds0 |-> IF p = Init0 /\ i < 3 THEN Console ELSE Closed]]
  /\ p01 = [p \in Slots |-> <<>>] /\ fg = [p \in Slots |-> FALSE]

Runcmd(p) ==
  \/ RunExec(p) \/ RunRedir(p) \/ RunList(p) \/ ListWait(p) \/ RunBack(p)
  \/ RunPipe(p) \/ PipeLeft(p) \/ PipeRight(p) \/ PipeChild(p) \/ PipeClose(p) \/ PipeWait(p)
  \/ RunExit(p)

Step(p) == ~halted /\ (Runcmd(p) \/ ProgramEnds(p) \/ Parse(p) \/ ShWait(p) \/ ShStart(p))
InitStep == ~halted /\ (InitFork \/ InitWait)
User(p) == ~halted /\ ((\E tok \in Tokens : Gets(p, tok)) \/ Erase(p) \/ Enter(p) \/ ShEof(p))

Next ==
  \/ InitStep
  \/ \E p \in Slots \ {Init0} : Step(p) \/ User(p)

\* Processes run; programs end once their input has; nobody has to type.
Spec == Init /\ [][Next]_vars /\ WF_vars(InitStep) /\ \A p \in Slots \ {Init0} : WF_vars(Step(p))

-----------------------------------------------------------------------------
(* Properties *)

\* Types; in particular no command that failed to parse is run.
TypeOK ==
  /\ \A p \in Slots : cmd[p].type \in {"EXEC", "REDIR", "PIPE", "LIST", "BACK", "nothing"}
  /\ pc \in [Slots -> {"unused", "zombie", "init", "initwait", "sh", "prompt", "shwait", "parse",
                       "run", "list", "pipe1", "pipe2", "pipe3", "left", "right", "wait1", "wait2",
                       "exit", "program"}]
  /\ parent \in [Slots -> Slots] /\ fg \in [Slots -> BOOLEAN] /\ shell \in Slots
  /\ Range(line) \subseteq Tokens /\ {typed, failed, halted} \subseteq BOOLEAN

\* The recursive descent accepts the lines the reference gives a meaning, and
\* builds that meaning: precedence and grouping of ; & | and ( ), and the order
\* of redirections.
ParserAgrees == ~typed => parsecmd(line) = Reference(line)

\* A program starts with the descriptors 0, 1 and 2 and no other: the closes
\* around the pipes leave no side of one behind, and dup and open hit 0 and 1.
ProgramFds ==
  \A p \in Slots : pc[p] = "program" => {i \in Fds0 : fds[p][i] # Closed} = {0, 1, 2}

\* The right side of ; starts when the left one has ended.
OneAfterTheOther == \A p \in Slots : pc[p] \in {"run", "program"} => Children(p) = {}

\* The shell prompts when every process of the line is gone, except those
\* started with & (and unless a fork failed: panic leaves the left side of a
\* pipe behind).
PromptMeansDone ==
  ~failed => \A p, q \in Slots :
    pc[p] = "prompt" => ~(fg[q] /\ pc[q] \notin {"unused", "zombie"})

\* The shell's wait for a line ends: no process keeps a side of a pipe open on
\* which a program of the line waits for the end of file.
LineEnds == (\E p \in Slots : pc[p] = "shwait") ~> (halted \/ \A p \in Slots : pc[p] # "shwait")

\* Whoever exits is reaped, by its parent or, left behind with &, by init, at
\* the latest when init starts the next shell.
ZombiesReaped ==
  \A p \in Slots \ {Init0} : pc[p] = "zombie" ~> (pc[p] = "unused" \/ pc[Init0] = "init" \/ halted)
=============================================================================
