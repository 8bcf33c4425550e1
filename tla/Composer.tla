------------------------------- MODULE Composer -------------------------------
(* The line an action is typed into (lib/composer.ts): "@context", "#project"   *)
(* and "!tag" tokens in a text, the token under the caret, and its completion.   *)
(* A text is a sequence of characters; letters stand for themselves whatever      *)
(* their case, and a name is given as the code compares it, without its sigil.    *)
EXTENDS Naturals, Sequences, SequencesExt, FiniteSetsExt

CONSTANTS None, Chars,
          Contexts, Projects, Tags     \* the names that exist, in the order of their lists

Text   == Seq(Chars)
Mark   == "\""                     \* the quotation mark
Sigils == {"@", "#", "!"}
ASSUME CharsAssumption == Sigils \cup {" ", Mark} \subseteq Chars
ASSUME ListsAssumption == {Contexts, Projects, Tags} \subseteq Seq(Text)
ASSUME NoneAssumption  == None \notin Text \cup [name : Text, quoted : BOOLEAN, after : Nat]

Names(s) == {s[k] : k \in 1..Len(s)}
Known(g) == CASE g = "@" -> Names(Contexts) [] g = "#" -> Names(Projects) [] OTHER -> Names(Tags)

Blank(text, i)  == text[i] = " "
Starts(text, i) == i = 1 \/ Blank(text, i - 1)          \* a token may begin at i
Inner(text, i)  == i <= Len(text) /\ ~Blank(text, i)    \* a word goes on at i
\* The first position from i on that holds one of stops, or the end of the text.
Until(text, i, stops) == Min({k \in i..Len(text) : text[k] \in stops} \cup {Len(text) + 1})

Trimmed(q) == LET ink == {k \in 1..Len(q) : ~Blank(q, k)}
              IN  IF ink = {} THEN <<>> ELSE SubSeq(q, Min(ink), Max(ink))

-----------------------------------------------------------------------------
(* Tokens *)

\* The name that is written from position i: in quotes, or one word.  After is where
\* the text goes on.
Word(text, i, end)     == IF end = i THEN None
                          ELSE [name |-> SubSeq(text, i, end - 1), quoted |-> FALSE, after |-> end]
Quoted(text, i, close) == IF close = i THEN None
                          ELSE [name |-> SubSeq(text, i, close - 1), quoted |-> TRUE,
                                after |-> Min({close, Len(text)}) + 1]
ReadName(text, i) == IF i <= Len(text) /\ text[i] = Mark
                     THEN Quoted(text, i + 1, Until(text, i + 1, {Mark}))
                     ELSE Word(text, i, Until(text, i, Sigils \cup {" ", Mark}))

\* The longest name of a list that stands at position i as whole words.
Longest(names)          == CHOOSE n \in names : \A o \in names : Len(o) <= Len(n)
Fitting(text, i, names) ==
  {n \in names : /\ n # <<>> /\ i + Len(n) - 1 <= Len(text)
                 /\ n = SubSeq(text, i, i + Len(n) - 1) /\ ~Inner(text, i + Len(n))}

\* A quoted name is taken literally; the longest known one wins over a new word.
Token(g, i, name, known, after) ==
  [sigil |-> g, start |-> i, name |-> name, known |-> known, after |-> after]
Existing1(g, i, name)       == Token(g, i, name, TRUE, i + 1 + Len(name))
Resolved(g, i, read, fits) ==
  CASE read = None -> <<>>
    [] read # None /\ (read.quoted \/ fits = {}) ->
         <<Token(g, i, read.name, read.quoted /\ read.name \in Known(g), read.after)>>
    [] OTHER -> <<Existing1(g, i, Longest(fits))>>
Resolve(text, i, g) == Resolved(g, i, ReadName(text, i + 1), Fitting(text, i + 1, Known(g)))
Found(text, i, on)  == IF text[i] \in on /\ Starts(text, i) THEN Resolve(text, i, text[i]) ELSE <<>>

After(found, i)      == IF found = <<>> THEN i + 1 ELSE found[1].after
Only(found)          == IF found = <<>> THEN {} ELSE {found[1].sigil} \ {"!"}

\* The tokens of a text, from the left: one context, one project, any number of tags.
\* on is the set of sigils the field reads.
Tokens(text, on) ==
  LET Scan[i \in 1..Len(text) + 1] ==
        [taken \in SUBSET Sigils |->
           IF i > Len(text) THEN <<>>
           ELSE LET found == Found(text, i, on \ taken)
                IN  found \o Scan[After(found, i)][taken \cup Only(found)]]
  IN  Scan[1][{}]

\* What is left as the description: runs of blanks are one, none at the ends.
Free(text, tokens)   == {i \in 1..Len(text) :
                          \A k \in 1..Len(tokens) : i \notin tokens[k].start..tokens[k].after - 1}
Collapse(text, free) ==
  LET Left[i \in 0..Len(text)] ==
        IF i = 0 THEN <<>>
        ELSE IF i \notin free \/ (Blank(text, i) /\ (Left[i-1] = <<>> \/ Last(Left[i-1]) = " "))
             THEN Left[i-1]
             ELSE Append(Left[i-1], text[i])
  IN  Left[Len(text)]
Description(text, tokens) == Trimmed(Collapse(text, Free(text, tokens)))

\* The first token of a sigil, and the tags that are named.
First(tokens, g) == LET its == {k \in 1..Len(tokens) : tokens[k].sigil = g}
                    IN  IF its = {} THEN None ELSE tokens[Min(its)]
TagsOf(tokens)   == {tokens[k].name : k \in {j \in 1..Len(tokens) : tokens[j].sigil = "!"}}

-----------------------------------------------------------------------------
(* Completion *)

Holds(n, q)  == \E k \in 0..Len(n) : IsPrefix(q, SubSeq(n, k + 1, Len(n)))
FirstWord(q) == SubSeq(q, 1, Until(q, 1, {" "}) - 1)

\* The token that is typed at the caret (the number of characters before it).  A blank
\* does not end it while what is typed still begins a known name.
Query(text, i, from, caret) == [sigil |-> text[i], start |-> i, quoted |-> from = i + 2,
                                query |-> SubSeq(text, from, caret)]
Ended(token)     == /\ " " \in Names(token.query)
                    /\ \A n \in Known(token.sigil) : ~IsPrefix(token.query, n)
Bare(token)      == IF Ended(token) THEN None ELSE token
TokenFrom(text, i, caret) ==
  IF i < Len(text) /\ text[i + 1] = Mark
  THEN IF Until(text, i + 2, {Mark}) <= caret THEN None ELSE Query(text, i, i + 2, caret)
  ELSE Bare(Query(text, i, i + 1, caret))
Nearest(text, starts, caret) ==
  IF starts # {} /\ Starts(text, Max(starts)) THEN TokenFrom(text, Max(starts), caret) ELSE None
ActiveToken(text, caret, on) == Nearest(text, {k \in 1..caret : text[k] \in on}, caret)

\* Another token of the text is the action's context or project already.
Taken(text, token, on) ==
  /\ token.sigil # "!"
  /\ \E other \in Names(Tokens(text, on)) : other.sigil = token.sigil /\ other.start # token.start

Suggested(token) == {n \in Known(token.sigil) : Holds(n, Trimmed(token.query))}
\* The name that can be created instead, or nothing.
Missing(typed, g) == IF typed = <<>> \/ typed \in Known(g) THEN None ELSE typed
Creatable(token)  == Missing(IF token.quoted THEN Trimmed(token.query)
                             ELSE FirstWord(Trimmed(token.query)), token.sigil)

\* What is put at the start of a token, and what is left of it from position rest on.
Spliced(text, start, inserted, rest) ==
  [text  |-> SubSeq(text, 1, start - 1) \o inserted \o SubSeq(text, rest, Len(text)),
   caret |-> start - 1 + Len(inserted)]
Quote(name, new)  == IF new /\ " " \in Names(name) THEN <<Mark>> \o name \o <<Mark>> ELSE name
\* A closing quote goes with what was typed.
Skip(text, i, quoted) == IF quoted /\ i <= Len(text) /\ text[i] = Mark THEN i + 1 ELSE i
Behind(text, token)   == Skip(text, token.start + Len(token.query) + (IF token.quoted THEN 2 ELSE 1),
                              token.quoted)

\* Fault: a name of several words is not put in quotes.
AppliedUnquoted(text, token, name, new) ==
  Spliced(text, token.start, <<token.sigil>> \o name \o <<" ">>, Behind(text, token))

\* A completion replaces what was typed of the token, its quotes included.
Applied(text, token, name, new) ==
  Spliced(text, token.start, <<token.sigil>> \o Quote(name, new) \o <<" ">>, Behind(text, token))
=============================================================================
