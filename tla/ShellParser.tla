---------------------------- MODULE ShellParser -----------------------------
(***************************************************************************)
(* The parser of the shell (sh.c).  A line is a sequence of symbols: the   *)
(* characters that mean something to the shell, blanks, and letters of     *)
(* words.  Positions in it are the pointers of the code; behind its end is *)
(* the NUL.  A parse function returns the command and the position behind  *)
(* it, or Syntax where the code panics.                                    *)
(***************************************************************************)
EXTENDS Integers, Sequences, FiniteSetsExt

CONSTANT MAXARGS

NUL == "NUL"
Blank == " "
symbols == {"<", "|", ">", "&", ";", "(", ")"}

At(l, i) == IF i <= Len(l) THEN l[i] ELSE NUL

\* The first position from i on whose symbol is in S, or is not: the while loops.
To(l, i, S) == Min({j \in i..(Len(l) + 1) : At(l, j) \in S \cup {NUL}})
Past(l, i, S) == Min({j \in i..(Len(l) + 1) : At(l, j) \notin S})

peek(l, i, toks) == At(l, Past(l, i, {Blank})) \in toks

\* A token: its kind, where it begins (q) and ends (eq), and where the next one begins.
gettoken(l, i) ==
    LET q == Past(l, i, {Blank})
        c == At(l, q)
        twice == c = ">" /\ At(l, q + 1) = ">"
        eq == CASE c = NUL -> q
                [] twice -> q + 2
                [] c \in symbols /\ ~ twice -> q + 1
                [] OTHER -> To(l, q, symbols \cup {Blank})
    IN  [tok |-> IF twice THEN "+" ELSE IF c \in symbols \cup {NUL} THEN c ELSE "a",
         q |-> q, eq |-> eq, next |-> Past(l, eq, {Blank})]

-----------------------------------------------------------------------------
\* The constructors.  A word is given by its two ends.
Word(t) == [q |-> t.q, eq |-> t.eq]
execcmd == [type |-> "EXEC", argv |-> <<>>]
redircmd(c, file, fd) == [type |-> "REDIR", cmd |-> c, file |-> file, fd |-> fd]
pipecmd(left, right) == [type |-> "PIPE", left |-> left, right |-> right]
listcmd(left, right) == [type |-> "LIST", left |-> left, right |-> right]
backcmd(c) == [type |-> "BACK", cmd |-> c]

Broken == [type |-> "none"]
Syntax == [cmd |-> Broken, at |-> 0]
Parsed(c, i) == [cmd |-> c, at |-> i]
Failed(r) == r.at = 0

\* What parseexec does to the execcmd that redirections have been wrapped around.
RECURSIVE WithArg(_, _)
WithArg(c, w) ==
    IF c.type = "REDIR" THEN [c EXCEPT !.cmd = WithArg(@, w)]
    ELSE [c EXCEPT !.argv = Append(@, w)]

RECURSIVE parseredirs(_, _)
parseredirs(l, r) ==
    LET tok == gettoken(l, r.at)
        file == gettoken(l, tok.next)
    IN  CASE Failed(r) \/ ~ peek(l, r.at, {"<", ">"}) -> r
          [] OTHER ->
                IF file.tok # "a" THEN Syntax
                ELSE LET fd == IF tok.tok = "<" THEN 0 ELSE 1
                     IN  parseredirs(l, Parsed(redircmd(r.cmd, Word(file), fd), file.next))

\* The loop of parseexec.
RECURSIVE parseargs(_, _, _)
parseargs(l, r, argc) ==
    LET t == gettoken(l, r.at)
    IN  CASE Failed(r) \/ peek(l, r.at, {"|", ")", "&", ";", NUL}) -> r
          [] OTHER ->
                IF t.tok # "a" \/ argc + 1 >= MAXARGS THEN Syntax
                ELSE LET s == Parsed(WithArg(r.cmd, Word(t)), t.next)
                     IN  parseargs(l, parseredirs(l, s), argc + 1)

\* The loop of parseline.
RECURSIVE parsebacks(_, _)
parsebacks(l, r) ==
    IF Failed(r) \/ ~ peek(l, r.at, {"&"}) THEN r
    ELSE parsebacks(l, Parsed(backcmd(r.cmd), gettoken(l, r.at).next))

RECURSIVE parseline(_, _)

parseblock(l, i) ==
    LET r == parseline(l, gettoken(l, i).next)
    IN  IF Failed(r) \/ ~ peek(l, r.at, {")"}) THEN Syntax
        ELSE parseredirs(l, Parsed(r.cmd, gettoken(l, r.at).next))

parseexec(l, i) ==
    IF peek(l, i, {"("}) THEN parseblock(l, i)
    ELSE parseargs(l, parseredirs(l, Parsed(execcmd, i)), 0)

\* r, then sym and what parse finds behind it, if there is such a thing.
Then(l, r, sym, parse(_, _), make(_, _)) ==
    IF Failed(r) \/ ~ peek(l, r.at, {sym}) THEN r
    ELSE LET s == parse(l, gettoken(l, r.at).next)
         IN  IF Failed(s) THEN Syntax ELSE Parsed(make(r.cmd, s.cmd), s.at)

RECURSIVE parsepipe(_, _)
parsepipe(l, i) == Then(l, parseexec(l, i), "|", parsepipe, pipecmd)

parseline(l, i) == Then(l, parsebacks(l, parsepipe(l, i)), ";", parseline, listcmd)

-----------------------------------------------------------------------------
\* The positions where nulterminate puts a NUL.
RECURSIVE nulterminate(_)
nulterminate(c) ==
    CASE c.type = "EXEC" -> {c.argv[i].eq : i \in DOMAIN c.argv}
      [] c.type = "REDIR" -> nulterminate(c.cmd) \cup {c.file.eq}
      [] c.type \in {"PIPE", "LIST"} -> nulterminate(c.left) \cup nulterminate(c.right)
      [] c.type = "BACK" -> nulterminate(c.cmd)

\* The command with the strings that its pointers lead to in line l.
String(l, w) == SubSeq(l, w.q, To(l, w.q, {}) - 1)

RECURSIVE Strings(_, _)
Strings(l, c) ==
    CASE c.type = "EXEC" -> [c EXCEPT !.argv = [i \in DOMAIN @ |-> String(l, @[i])]]
      [] c.type = "REDIR" -> [c EXCEPT !.cmd = Strings(l, @), !.file = String(l, @)]
      [] c.type \in {"PIPE", "LIST"} -> [c EXCEPT !.left = Strings(l, @), !.right = Strings(l, @)]
      [] c.type = "BACK" -> [c EXCEPT !.cmd = Strings(l, @)]

parsecmd(l) ==
    LET r == parseline(l, 1)
        ends == nulterminate(r.cmd)
    IN  IF Failed(r) \/ Past(l, r.at, {Blank}) # Len(l) + 1 THEN Broken
        ELSE Strings([i \in DOMAIN l |-> IF i \in ends THEN NUL ELSE l[i]], r.cmd)

-----------------------------------------------------------------------------
(***************************************************************************)
(* The line that a user types for a command, with brackets where they are  *)
(* needed and blanks only between words: what the parser has to find.      *)
(***************************************************************************)
Level(c) == CASE c.type \in {"EXEC", "REDIR"} -> 0 [] c.type = "PIPE" -> 1
              [] c.type = "BACK" -> 2 [] c.type = "LIST" -> 3

RECURSIVE Text(_)
Bracketed(c, level) == IF Level(c) <= level THEN Text(c) ELSE <<"(">> \o Text(c) \o <<")">>
RECURSIVE Spaced(_)
Spaced(words) ==
    IF Len(words) < 2 THEN (IF words = <<>> THEN <<>> ELSE words[1])
    ELSE words[1] \o <<Blank>> \o Spaced(Tail(words))

Text(c) ==
    CASE c.type = "EXEC" -> Spaced(c.argv)
      [] c.type = "REDIR" -> Bracketed(c.cmd, 0) \o <<IF c.fd = 0 THEN "<" ELSE ">">> \o c.file
      [] c.type = "PIPE" -> Bracketed(c.left, 0) \o <<"|">> \o Bracketed(c.right, 1)
      [] c.type = "BACK" -> Bracketed(c.cmd, 2) \o <<"&">>
      [] c.type = "LIST" -> Bracketed(c.left, 2) \o <<";">> \o Text(c.right)
=============================================================================
