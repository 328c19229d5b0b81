-------------------------------- MODULE LibC --------------------------------
(***************************************************************************)
(* The kernel's library (lib.c) and the one the programs are linked with   *)
(* (syscalls/ece391support.c): strings, numbers, printf, blocks of memory. *)
(*                                                                         *)
(* A string in memory is a sequence of characters that holds a NUL; what   *)
(* is behind the NUL is still there.  Memory is a function from addresses  *)
(* to bytes.  The string instructions (rep stos, rep movs) follow the      *)
(* processor's direction flag, which outlives the call that sets it.       *)
(***************************************************************************)
EXTENDS Integers, Sequences, SequencesExt, FiniteSetsExt

CONSTANTS
    Ascii,       \* Ascii[c]: code of character c
    HEX_DIGITS   \* hexadecimal digits of an integer (8)

NUL == "NUL"
NL == "\n"

ASSUME LibCAssumption ==
    /\ DOMAIN Ascii \subseteq STRING /\ NUL \in DOMAIN Ascii
    /\ \A c, d \in DOMAIN Ascii : Ascii[c] = Ascii[d] => c = d
    /\ HEX_DIGITS \in Nat \ {0}

Integers32 == 16 ^ HEX_DIGITS   \* an integer is one of 0 .. Integers32 - 1

-----------------------------------------------------------------------------
(* Strings.  A C string of the characters w, and the characters of one.     *)
CString(w) == Append(w, NUL)

strlen(s) == CHOOSE n \in 0 .. Len(s) - 1 :
    s[n + 1] = NUL /\ \A i \in 1 .. n : s[i] # NUL

Text(s) == SubSeq(s, 1, strlen(s))

(* Copies up to the NUL and fills the rest of the n bytes with NUL.         *)
strncpy(dest, src, n) ==
    [i \in DOMAIN dest |-> IF i > n THEN dest[i]
                           ELSE IF i <= strlen(src) THEN src[i] ELSE NUL]

(* Both copies of strcpy.                                                   *)
strcpy(dest, src) ==
    SubSeq(src, 1, strlen(src) + 1) \o SubSeq(dest, strlen(src) + 2, Len(dest))

strncmp(s1, s2, n) ==
    LET from[i \in 1 .. n + 1] ==
            IF i > n THEN 0
            ELSE IF s1[i] # s2[i] \/ s1[i] = NUL THEN Ascii[s1[i]] - Ascii[s2[i]]
            ELSE from[i + 1]
    IN  from[1]

ece391_strcmp(s1, s2) ==
    LET from[i \in 1 .. strlen(s1) + 1] ==
            IF s1[i] # s2[i] THEN Ascii[s1[i]] - Ascii[s2[i]]
            ELSE IF s1[i] = NUL THEN 0 ELSE from[i + 1]
    IN  from[1]

ece391_strncmp(s1, s2, n) ==
    LET from[i \in 1 .. n] ==
            IF s1[i] # s2[i] THEN Ascii[s1[i]] - Ascii[s2[i]]
            ELSE IF s1[i] = NUL \/ i = n THEN 0 ELSE from[i + 1]
    IN  IF n = 0 THEN 0 ELSE from[1]

(* Swaps the ends and moves inwards until they meet; both copies.           *)
strrev(s) ==
    LET swapped[beg \in 0 .. strlen(s)] ==
            IF beg = 0 THEN s
            ELSE LET t == swapped[beg - 1]  end == strlen(s) - beg + 1
                 IN  IF beg < end THEN [t EXCEPT ![beg] = t[end], ![end] = t[beg]] ELSE t
    IN  swapped[strlen(s)]

-----------------------------------------------------------------------------
(* Numbers and printf.                                                      *)
lookup == <<"0", "1", "2", "3", "4", "5", "6", "7", "8", "9",
            "A", "B", "C", "D", "E", "F">>

(* The digits from the lowest up, then reversed; both copies.               *)
itoa(value, radix) ==
    LET digits[v \in 0 .. value] ==
            IF v = 0 THEN <<>> ELSE <<lookup[(v % radix) + 1]>> \o digits[v \div radix]
    IN  IF value = 0 THEN CString(<<"0">>) ELSE strrev(CString(digits[value]))

(* A bit pattern read as a signed integer is negative.                      *)
Negative(v) == v >= Integers32 \div 2

(* %#x: zeros from strlen up to the digits, printed from there.             *)
Padded(v) ==
    LET digits == Text(itoa(v, 16))
    IN  [i \in 1 .. HEX_DIGITS - Len(digits) |-> "0"] \o digits

(* %d                                                                       *)
Signed(v) ==
    IF Negative(v) THEN <<"-">> \o Text(itoa((Integers32 - v) % Integers32, 10))
    ELSE Text(itoa(v, 10))

(* What a specifier prints of the next argument; others print nothing.      *)
Converted(spec, alternate, arg) ==
    CASE spec = "x" -> IF alternate THEN Padded(arg) ELSE Text(itoa(arg, 16))
      [] spec = "u" -> Text(itoa(arg, 10))
      [] spec = "d" -> Signed(arg)
      [] spec = "c" -> <<arg>>
      [] spec = "s" -> Text(arg)

(* The first character behind the % at i and its flags.                     *)
Specifier(format, i) ==
    Min({n \in i + 1 .. Len(format) + 1 : n > Len(format) \/ format[n] # "#"})

(* The characters printf gives to putc from the i-th of the format on, when *)
(* the next argument is the k-th and rest[j][n] are those from j and n on.  *)
(* What it does with a % at the very end is unknown.                        *)
PutFrom(format, args, rest, i, k) ==
    LET j == Specifier(format, i)
    IN  IF i > Len(format) THEN <<>>
        ELSE IF format[i] # "%" THEN <<format[i]>> \o rest[i + 1][k]
        ELSE IF j > Len(format) THEN <<>>
        ELSE IF format[j] = "%" THEN <<"%">> \o rest[j + 1][k]
        ELSE IF format[j] \in {"x", "u", "d", "c", "s"}
        THEN Converted(format[j], j > i + 1, args[k]) \o rest[j + 1][k + 1]
        ELSE rest[j + 1][k]

printf(format, args) ==
    LET from[i \in 1 .. Len(format) + 1] == [k \in Nat |-> PutFrom(format, args, from, i, k)]
    IN  from[1][1]

-----------------------------------------------------------------------------
(* Blocks of memory.  The instructions, for units of `width` bytes: up, or  *)
(* down when the direction flag is set.                                     *)
Up == 1
Down == -1
Direction(df) == IF df THEN Down ELSE Up

Unit(base, k, width, dir) == base + dir * (k * width)

(* The lowest bytes of c.                                                   *)
Bytes(c, width) == [b \in 0 .. width - 1 |-> (c \div 256 ^ b) % 256]

rep_stos(mem, edi, count, width, bytes, dir) ==
    [a \in DOMAIN mem |->
        LET over == {k \in 0 .. count - 1 : a - Unit(edi, k, width, dir) \in 0 .. width - 1}
        IN  IF over = {} THEN mem[a] ELSE bytes[a - Unit(edi, Min(over), width, dir)]]

rep_movs(mem, esi, edi, count, width, dir) ==
    LET moved[k \in 0 .. count] ==
            IF k = 0 THEN mem
            ELSE LET d == Unit(edi, k - 1, width, dir)
                     s == Unit(esi, k - 1, width, dir)
                 IN  [a \in DOMAIN mem |-> IF a - d \in 0 .. width - 1
                                           THEN moved[k - 1][s + (a - d)]
                                           ELSE moved[k - 1][a]]
    IN  moved[count]

(* Mutant: the first bytes are not counted against the length.              *)
UnalignedUncounted(edi, n) == (4 - (edi % 4)) % 4

(* The bytes before the first one whose address is a multiple of 4.         *)
Unaligned(edi, n) == Min({n, (4 - (edi % 4)) % 4})

(* The byte c & 0xFF in each of the 4 bytes of eax.                         *)
Filler(c) == [b \in 0 .. 3 |-> c % 256]

(* Bytes up to an aligned one, then words of 4 with rep, then the rest; the *)
(* flag is cleared only on the way to the rep.                              *)
memset(mem, df, s, c, n) ==
    LET h == Unaligned(s, n)  q == (n - h) \div 4  r == (n - h) % 4
        m1 == rep_stos(mem, s, h, 1, Filler(c), Up)
        m2 == rep_stos(m1, s + h, q, 4, Filler(c), Up)
    IN  [mem |-> rep_stos(m2, s + h + 4 * q, r, 1, Filler(c), Up),
         df  |-> df /\ n = h]

memset_word(mem, df, s, c, n) ==
    [mem |-> rep_stos(mem, s, n, 2, Bytes(c, 2), Up), df |-> FALSE]

memset_dword(mem, df, s, c, n) ==
    [mem |-> rep_stos(mem, s, n, 4, Bytes(c, 4), Up), df |-> FALSE]

memcpy(mem, df, dest, src, n) ==
    LET h == Unaligned(dest, n)  q == (n - h) \div 4  r == (n - h) % 4
        m1 == rep_movs(mem, src, dest, h, 1, Up)
        m2 == rep_movs(m1, src + h, dest + h, q, 4, Up)
    IN  [mem |-> rep_movs(m2, src + h + 4 * q, dest + h + 4 * q, r, 1, Up),
         df  |-> df /\ n = h]

(* From the last byte down when the destination is above the source, and    *)
(* then the flag stays set.                                                 *)
memmove(mem, df, dest, src, n) ==
    IF src >= dest
    THEN [mem |-> rep_movs(mem, src, dest, n, 1, Up), df |-> FALSE]
    ELSE [mem |-> rep_movs(mem, src + n - 1, dest + n - 1, n, 1, Down), df |-> TRUE]

=============================================================================
