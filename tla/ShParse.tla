------------------------------ MODULE ShParse ------------------------------
(***************************************************************************)
(* The shell's parser (sh.c): recursive descent over the tokens of a line, *)
(* and a reference definition of the language that splits the line at its  *)
(* operators instead.                                                      *)
(*                                                                         *)
(* A line is a sequence of tokens as gettoken returns them: "a" for a      *)
(* word, and the symbols.  White space, and the text of the words, which   *)
(* nulterminate only cuts out of the line, are left out.  A parser takes   *)
(* the tokens that are left and returns a command and what it left; panic  *)
(* ends the process, so a command that panicked stays one.                 *)
(***************************************************************************)
EXTENDS Integers, Sequences, SequencesExt, FiniteSets, FiniteSetsExt

CONSTANT MAXARGS

Panic == [type |-> "panic"]
execcmd(argc) == [type |-> "EXEC", argc |-> argc]
redircmd(c, fd) == [type |-> "REDIR", cmd |-> c, fd |-> fd]
pipecmd(l, r) == [type |-> "PIPE", left |-> l, right |-> r]
listcmd(l, r) == [type |-> "LIST", left |-> l, right |-> r]
backcmd(c) == [type |-> "BACK", cmd |-> c]

peek(s, toks) == s # <<>> /\ Head(s) \in toks
Rest(s, k) == SubSeq(s, k + 1, Len(s))
Res(c, s) == [bad |-> FALSE, cmd |-> c, rest |-> s]
\* The only element of S.  Written with x \in {e}, e is evaluated once.
Only(S) == CHOOSE x \in S : TRUE
Panicked == [bad |-> TRUE, cmd |-> Panic, rest |-> <<>>]

\* The descriptor a redirection replaces.
RedirFd(tok) == IF tok = "<" THEN 0 ELSE 1

RECURSIVE parseline(_), parsepipe(_), Parseredirs(_, _), Args(_, _, _), Backs(_)

\* parseredirs wraps the command it is given, once per redirection.  The caller
\* gets the descriptors, the first redirection first.
Parseredirs(fds, s) ==
  IF ~peek(s, {"<", ">", "+"}) THEN Res(fds, s)
  ELSE IF ~peek(Tail(s), {"a"}) THEN Panicked
  ELSE Parseredirs(Append(fds, RedirFd(Head(s))), Rest(s, 2))

Wrap(c, fds) == FoldLeft(redircmd, c, fds)

\* parseexec's loop: argc words so far, fds the redirections met.
Args(argc, fds, s) ==
  IF s = <<>> \/ peek(s, {"|", ")", "&", ";"}) THEN Res(Wrap(execcmd(argc), fds), s)
  ELSE IF Head(s) # "a" \/ argc + 1 >= MAXARGS THEN Panicked
  ELSE Only({IF x.bad THEN Panicked ELSE Args(argc + 1, x.cmd, x.rest) :
               x \in {Parseredirs(fds, Tail(s))}})

BlockEnd(x) ==
  IF x.bad \/ ~peek(x.rest, {")"}) THEN Panicked
  ELSE Only({IF y.bad THEN Panicked ELSE Res(Wrap(x.cmd, y.cmd), y.rest) :
               y \in {Parseredirs(<<>>, Tail(x.rest))}})

parseblock(s) == Only({BlockEnd(x) : x \in {parseline(Tail(s))}})

parseexec(s) ==
  IF peek(s, {"("}) THEN parseblock(s)
  ELSE Only({IF x.bad THEN Panicked ELSE Args(0, x.cmd, x.rest) : x \in {Parseredirs(<<>>, s)}})

\* c joins both sides of | or ;, and y is the result of the right one, parsed last.
Sides(c, y) == IF y.bad THEN Panicked ELSE Res(c, y.rest)

PipeEnd(x) ==
  IF x.bad \/ ~peek(x.rest, {"|"}) THEN x
  ELSE Only({Sides(pipecmd(x.cmd, y.cmd), y) : y \in {parsepipe(Tail(x.rest))}})

parsepipe(s) == Only({PipeEnd(x) : x \in {parseexec(s)}})

\* One & at the end of a pipe, and every one.
BackOnce(x) == IF peek(x.rest, {"&"}) THEN Res(backcmd(x.cmd), Tail(x.rest)) ELSE x
Backs(x) == IF peek(x.rest, {"&"}) THEN Backs(Res(backcmd(x.cmd), Tail(x.rest))) ELSE x

LineEnd(x) ==
  IF x.bad \/ ~peek(x.rest, {";"}) THEN x
  ELSE Only({Sides(listcmd(x.cmd, y.cmd), y) : y \in {parseline(Tail(x.rest))}})

parseline(s) == Only({LineEnd(Backs(x)) : x \in {parsepipe(s)}})

\* Tokens that are left over are a syntax error.
parsecmd(s) ==
  Only({IF x.bad \/ x.rest # <<>> THEN Panic ELSE x.cmd : x \in {parseline(s)}})

-----------------------------------------------------------------------------
(* The reference: what a line means, by where its operators outside           *)
(* parentheses are.                                                           *)

Opened(s, i, tok) == Cardinality({j \in 1 .. i : s[j] = tok})
Depth(s, i) == Opened(s, i, "(") - Opened(s, i, ")")
Balanced(s) == Depth(s, Len(s)) = 0 /\ \A i \in 1 .. Len(s) : Depth(s, i) >= 0
Outside(s, tok) == {i \in 1 .. Len(s) : s[i] = tok /\ Depth(s, i) = 0}
Before(s, i) == SubSeq(s, 1, i - 1)
After(s, i) == SubSeq(s, i + 1, Len(s))

\* In a simple command every word either follows a redirection or is an argument.
Redirs(s) == {i \in 1 .. Len(s) : s[i] \in {"<", ">", "+"}}
Arguments(s) == {i \in 1 .. Len(s) : s[i] = "a" /\ (i = 1 \/ i - 1 \notin Redirs(s))}
RedirsOK(s) == \A i \in Redirs(s) : i < Len(s) /\ s[i + 1] = "a"
Fds(s) == LET t == SelectSeq(s, LAMBDA tok : tok \in {"<", ">", "+"})
          IN  [i \in 1 .. Len(t) |-> RedirFd(t[i])]

Parts(l, r, f(_, _)) == IF Panic \in {l, r} THEN Panic ELSE f(l, r)

RECURSIVE RefLine(_), RefBack(_), RefPipe(_), RefSimple(_)
RefLine(s) ==
  IF Outside(s, ";") = {} THEN RefBack(s)
  ELSE LET i == Min(Outside(s, ";")) IN Parts(RefBack(Before(s, i)), RefLine(After(s, i)), listcmd)
RefBack(s) ==
  IF s # <<>> /\ Last(s) = "&"
  THEN LET c == RefBack(Front(s)) IN IF c = Panic THEN c ELSE backcmd(c)
  ELSE RefPipe(s)
RefPipe(s) ==
  IF Outside(s, "|") = {} THEN RefSimple(s)
  ELSE LET i == Min(Outside(s, "|")) IN Parts(RefSimple(Before(s, i)), RefPipe(After(s, i)), pipecmd)
RefSimple(s) ==
  IF s # <<>> /\ s[1] = "("
  THEN LET i == Min(Outside(s, ")"))
           after == After(s, i)
           c == RefLine(SubSeq(s, 2, i - 1))
       IN  IF c = Panic \/ Arguments(after) # {} \/ ~RedirsOK(after) \/ ~(Range(after) \subseteq {"a", "<", ">", "+"})
           THEN Panic ELSE Wrap(c, Fds(after))
  ELSE IF Range(s) \subseteq {"a", "<", ">", "+"} /\ RedirsOK(s) /\ Cardinality(Arguments(s)) < MAXARGS
  THEN Wrap(execcmd(Cardinality(Arguments(s))), Fds(s))
  ELSE Panic

Reference(s) == IF Balanced(s) THEN RefLine(s) ELSE Panic
=============================================================================
