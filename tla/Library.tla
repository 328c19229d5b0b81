------------------------------ MODULE Library ------------------------------
(***************************************************************************)
(* Calls of the library, in any order, against what they are meant to do.  *)
(* What one call leaves to the next is the processor's direction flag.     *)
(***************************************************************************)
EXTENDS Grep

CONSTANTS
    Words,       \* strings, without the NUL
    MaxCompared, \* bound: characters compared
    Memory,      \* addresses of the memory the block functions see
    Block,       \* addresses blocks lie in
    Fillers,     \* arguments of the memset functions
    Values,      \* integers converted
    Printed,     \* integers printf is given
    Files,       \* contents of files grep searches
    Patterns     \* what it searches them for

Letters == DOMAIN Ascii \ {NUL}

ASSUME LibraryAssumption ==
    /\ Ascii[NUL] = 0 /\ \A c \in DOMAIN Ascii : Ascii[c] \in 0 .. 127
    /\ NL \in DOMAIN Ascii /\ lookup \in Seq(STRING)
    /\ Words \subseteq Seq(Letters) /\ MaxCompared \in Nat \ {0}
    /\ Memory \subseteq Int /\ \A a, b \in Block : a .. b \subseteq Memory
    /\ Block \subseteq Int /\ IsFiniteSet(Block) /\ Fillers \subseteq Nat
    /\ Integers32 \in Nat /\ Integers32 % 2 = 0
    /\ Values \cup Printed \subseteq 0 .. Integers32 - 1
    /\ Files \subseteq Seq(Letters) /\ Patterns \subseteq Seq(Letters \ {NL}) \ {<<>>}

VARIABLES
    df,     \* the direction flag
    call    \* the last call: [fn, ...arguments, result]

libraryVars == <<df, call>>

NoCall == [fn |-> "none"]

(* No byte is like another: a block function never looks at one.            *)
Fresh == [a \in Memory |-> a]

(* The words in memory, with something behind the NUL.                      *)
InMemory(w) == CString(w) \o [i \in 1 .. MaxCompared |-> NL]

(* The digits of a number, as one writes it.                                *)
Numeral(v, radix) ==
    LET numeral[n \in 0 .. v] ==
            IF n < radix THEN <<lookup[n + 1]>>
            ELSE Append(numeral[n \div radix], lookup[(n % radix) + 1])
    IN  numeral[v]

(* The parts of a printf format, each with its argument and what it shows.  *)
Part(text, args, shows) == [text |-> text, args |-> args, shows |-> shows]

Items ==
    {Part(<<c>>, <<>>, <<c>>) : c \in Letters \ {"%"}}
    \cup {Part(<<"%", "%">>, <<>>, <<"%">>)}
    \cup {Part(<<"%", c>>, <<>>, <<>>) : c \in Letters \ {"%", "#", "x", "u", "d", "c", "s"}}
    \cup {Part(<<"%", "c">>, <<c>>, <<c>>) : c \in Letters}
    \cup {Part(<<"%", "s">>, <<InMemory(w)>>, w) : w \in Words}
    \cup {Part(<<"%", "x">>, <<v>>, Numeral(v, 16)) : v \in Printed}
    \cup {Part(<<"%", "#", "x">>, <<v>>,
                [i \in 1 .. HEX_DIGITS - Len(Numeral(v, 16)) |-> "0"] \o Numeral(v, 16)) :
              v \in Printed}
    \cup {Part(<<"%", "u">>, <<v>>, Numeral(v, 10)) : v \in Printed}
    \cup {Part(<<"%", "d">>, <<v>>,
                IF v < Integers32 - v THEN Numeral(v, 10)
                ELSE <<"-">> \o Numeral(Integers32 - v, 10)) : v \in Printed}

-----------------------------------------------------------------------------
(* Nothing sets the flag before the first call.                             *)
LibraryInit == df \in BOOLEAN /\ call = NoCall

Blocks(width) == {b \in Block \X (0 .. Cardinality(Block)) :
                      b[2] = 0 \/ b[1] + b[2] * width - 1 \in Block}

Set(fn, width, b, c, r) ==
    /\ call' = [fn |-> fn, s |-> b[1], n |-> b[2], c |-> c, width |-> width, result |-> r.mem]
    /\ df' = r.df

Memset == \E b \in Blocks(1), c \in Fillers :
    Set("memset", 1, b, c, memset(Fresh, df, b[1], c, b[2]))
MemsetWord == \E b \in Blocks(2), c \in Fillers :
    Set("memset_word", 2, b, c, memset_word(Fresh, df, b[1], c, b[2]))
MemsetDword == \E b \in Blocks(4), c \in Fillers :
    Set("memset_dword", 4, b, c, memset_dword(Fresh, df, b[1], c, b[2]))

(* Two blocks of a length, wherever they lie.                               *)
Pairs == {p \in Block \X Block \X (0 .. Cardinality(Block)) :
              p[3] = 0 \/ (p[1] + p[3] - 1 \in Block /\ p[2] + p[3] - 1 \in Block)}

Copy(fn, p, r) ==
    /\ call' = [fn |-> fn, dest |-> p[1], src |-> p[2], n |-> p[3], result |-> r.mem]
    /\ df' = r.df

Memcpy == \E p \in Pairs : Copy("memcpy", p, memcpy(Fresh, df, p[1], p[2], p[3]))
Memmove == \E p \in Pairs : Copy("memmove", p, memmove(Fresh, df, p[1], p[2], p[3]))

Returns(c) == call' = c /\ UNCHANGED df

Compare == \E w1, w2 \in Words, n \in 0 .. MaxCompared :
    LET s1 == InMemory(w1)  s2 == InMemory(w2) IN
    Returns([fn |-> "compare", w1 |-> w1, w2 |-> w2, n |-> n,
             strncmp |-> strncmp(s1, s2, n),
             ece391_strncmp |-> ece391_strncmp(s1, s2, n),
             ece391_strcmp |-> ece391_strcmp(s1, s2)])

StringReversed == \E w \in Words :
    Returns([fn |-> "strrev", w |-> w, result |-> strrev(CString(w))])

Number == \E v \in Values, radix \in {2, 10, 16} :
    Returns([fn |-> "itoa", v |-> v, radix |-> radix, result |-> itoa(v, radix)])

Format == \E i, j \in Items :
    Returns([fn |-> "printf", items |-> <<i, j>>,
             result |-> printf(i.text \o j.text, i.args \o j.args)])

FileSearched == \E s \in Patterns, file \in Files, junk \in DOMAIN Ascii :
    Returns([fn |-> "grep", s |-> s, file |-> file, junk |-> junk,
             result |-> do_one_file(CString(s), file, junk)])

(* The caller goes on, with its results but not with a clean flag.          *)
Resume == call # NoCall /\ Returns(NoCall)

LibraryNext ==
    \/ /\ call = NoCall
       /\ \/ Memset \/ MemsetWord \/ MemsetDword \/ Memcpy \/ Memmove
          \/ Compare \/ StringReversed \/ Number \/ Format \/ FileSearched
    \/ Resume

LibrarySpec == LibraryInit /\ [][LibraryNext]_libraryVars

-----------------------------------------------------------------------------
(* What the calls are meant to do.                                          *)
BlockSet(s, n, width, c) ==
    [a \in Memory |-> IF a - s \in 0 .. n * width - 1
                      THEN Bytes(c, width)[(a - s) % width] ELSE a]

Transferred(dest, src, n) ==
    [a \in Memory |-> IF a - dest \in 0 .. n - 1 THEN src + (a - dest) ELSE a]

Sign(n) == IF n < 0 THEN -1 ELSE IF n > 0 THEN 1 ELSE 0
Beginning(w, n) == SubSeq(w, 1, Min({n, Len(w)}))
Precedes(u, v) == \E i \in 1 .. Len(v) :
    /\ Beginning(u, i - 1) = Beginning(v, i - 1)
    /\ Len(u) < i \/ Ascii[u[i]] < Ascii[v[i]]
Order(u, v) == IF u = v THEN 0 ELSE IF Precedes(u, v) THEN -1 ELSE 1

Starts(file) == {i \in DOMAIN file : i = 1 \/ file[i - 1] = NL}
LineAt(file, i) ==
    SubSeq(file, i, Min({j \in i .. Len(file) + 1 : j > Len(file) \/ file[j] = NL}) - 1)
LineHolds(line, s) == \E i \in DOMAIN line : IsPrefix(s, SubSeq(line, i, Len(line)))
MatchingLines(file, s) ==
    LET upto[i \in 0 .. Len(file)] ==
            IF i = 0 THEN <<>>
            ELSE IF i \in Starts(file) /\ LineHolds(LineAt(file, i), s)
            THEN Append(upto[i - 1], LineAt(file, i)) ELSE upto[i - 1]
    IN  upto[Len(file)]

(* Blocks are filled and moved whole and nothing beside them is, at every   *)
(* alignment and length and in whatever state the calls before left the     *)
(* direction flag; memcpy too, unless it would overwrite what it has still  *)
(* to read, where only memmove is right.                                    *)
BlocksRight ==
    /\ call.fn \in {"memset", "memset_word", "memset_dword"} =>
          call.result = BlockSet(call.s, call.n, call.width, call.c)
    /\ call.fn = "memmove" => call.result = Transferred(call.dest, call.src, call.n)
    /\ call.fn = "memcpy" /\ (call.dest <= call.src \/ call.src + call.n <= call.dest) =>
          call.result = Transferred(call.dest, call.src, call.n)

(* Both libraries order strings alike, and as a dictionary does.            *)
StringsRight ==
    /\ call.fn = "compare" =>
          LET order == Order(Beginning(call.w1, call.n), Beginning(call.w2, call.n)) IN
          /\ Sign(call.strncmp) = order
          /\ Sign(call.ece391_strncmp) = order
          /\ Sign(call.ece391_strcmp) = Order(call.w1, call.w2)
    /\ call.fn = "strrev" => call.result = CString(Reverse(call.w))

(* Numbers read back as themselves, without leading zeros, and printf shows *)
(* each part of its format with its own argument.                           *)
NumbersRight ==
    /\ call.fn = "itoa" => call.result = CString(Numeral(call.v, call.radix))
    /\ call.fn = "printf" =>
          call.result = call.items[1].shows \o call.items[2].shows

(* grep prints the lines that hold the pattern, each once and in order, no  *)
(* matter where in a line its buffer ends, when every line fits the buffer  *)
(* and the stack behind the buffer holds no newline.                        *)
SearchRight ==
    call.fn = "grep" /\ call.junk # NL
    /\ (\A i \in Starts(call.file) : Len(LineAt(call.file, i)) <= BUFSIZE)
    => call.result = MatchingLines(call.file, call.s)

(* Whatever was called before, a call of the library does what its callers  *)
(* expect of it.                                                            *)
CallsAgree == BlocksRight /\ StringsRight /\ NumbersRight /\ SearchRight

=============================================================================
