-------------------------------- MODULE Grep --------------------------------
(***************************************************************************)
(* The search of one file by the program grep (syscalls/ece391grep.c): the *)
(* file is read into a buffer of BUFSIZE bytes, the lines in it are        *)
(* searched, and the beginning of a line that is not all there is moved to *)
(* the front before the next read.                                         *)
(***************************************************************************)
EXTENDS LibC

CONSTANT BUFSIZE   \* bytes grep reads ahead (1024)

ASSUME GrepAssumption == BUFSIZE \in Nat /\ BUFSIZE > 1

(* data is a sequence: data[i + 1] is the code's data[i].                   *)
LineEnd(data, last, line_start) ==
    Min({e \in line_start .. last : e = last \/ data[e + 1] = NL})

(* Some character from line_start on begins the string s.                   *)
Found(s, data, line_start, line_end) ==
    \E check \in line_start .. line_end - 1 :
        /\ s[1] = data[check + 1]
        /\ ece391_strncmp(SubSeq(data, check + 1, Len(data)), s, strlen(s)) = 0

(* The lines up to line_end are strings of their own.                       *)
Ended(data, line_end) ==
    [i \in DOMAIN data |-> IF i = line_end + 1 \/ (i <= line_end /\ data[i] = NL)
                           THEN NUL ELSE data[i]]

(* The bytes from line_start on, copied down to the front.                  *)
Moved(data, line_start) == strcpy(data, SubSeq(data, line_start + 1, Len(data)))

(* The inner loop, after a read of cnt bytes: the lines it prints from      *)
(* line_start on, and what it leaves in the buffer.                         *)
Search(s, data, last, cnt) ==
    LET from[line_start \in 0 .. last] ==
            LET line_end == LineEnd(data, last, line_start)
                ended    == Ended(data, line_end)
                line     == Text(SubSeq(ended, line_start + 1, Len(data)))
                printed  == IF Found(s, ended, line_start, line_end) THEN <<line>> ELSE <<>>
            IN  IF data[line_end + 1] # NL /\ cnt # 0 /\ line_start # 0
                THEN [data |-> Moved(ended, line_start), last |-> last - line_start,
                      out |-> <<>>]
                ELSE IF line_end + 1 >= last
                THEN [data |-> ended, last |-> 0, out |-> printed]
                ELSE LET rest == from[line_end + 1]
                     IN  [data |-> rest.data, last |-> rest.last, out |-> printed \o rest.out]
    IN  from[0]

(* What read puts behind what is kept: the next bytes of the file.          *)
Refilled(data, last, chunk) ==
    SubSeq(data, 1, last) \o chunk \o SubSeq(data, last + Len(chunk) + 1, Len(data))

(* One round of the outer loop, b.at bytes of the file read before it; the  *)
(* kernel's file_read does not fail on an open file, so the return of -1    *)
(* after a failed read is left out.                                         *)
Round(s, file, b) ==
    LET cnt == Min({BUFSIZE - b.last, Len(file) - b.at})
        r   == Search(s, Refilled(b.data, b.last, SubSeq(file, b.at + 1, b.at + cnt)),
                      b.last + cnt, cnt)
    IN  [data |-> r.data, last |-> r.last, at |-> b.at + cnt, out |-> b.out \o r.out,
         done |-> IF cnt = 0 THEN TRUE ELSE FALSE]

(* The lines printed, once the file is open (main passes names that         *)
(* directory reads have returned; close's result changes no line); junk is  *)
(* what the stack held in the buffer.  All but the last round read a byte   *)
(* at least.                                                                *)
do_one_file(s, file, junk) ==
    LET after[k \in 0 .. Len(file) + 1] ==
            IF k = 0 THEN [data |-> [i \in 1 .. BUFSIZE + 1 |-> junk], last |-> 0,
                           at |-> 0, out |-> <<>>, done |-> FALSE]
            ELSE LET b == after[k - 1] IN IF b.done THEN b ELSE Round(s, file, b)
    IN  after[Len(file) + 1].out

=============================================================================
