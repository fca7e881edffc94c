-------------------------------- MODULE Telegram --------------------------------
(***************************************************************************)
(* psu_control/ps2000.py: the bytes of a telegram, as operators.  A byte   *)
(* is a natural number below 256 and a telegram a sequence of them; the    *)
(* index of the code plus one is that of the sequence.                     *)
(***************************************************************************)
EXTENDS Integers, Sequences

Byte == 0 .. 255
QUERY == 64
SEND == 192
ANSWER == 80

\* The object of an answer that carries a verdict, which is 0 or an error: that
\* is a line of the log, and the answer is returned like any other.
Acknowledged == 255

High(n) == n \div 256
Low(n) == n % 256

\* The sum after each byte, as the loop adds them: it does not wrap.
Sums(bytes) ==
    LET sum[n \in 0 .. Len(bytes)] == IF n = 0 THEN 0 ELSE sum[n - 1] + bytes[n]
    IN  sum

\* The sum of which the checksum is made.
Total(bytes) == Sums(bytes)[Len(bytes)]

WithChecksum(bytes) == bytes \o <<High(Total(bytes)), Low(Total(bytes))>>

\* The start delimiter tells the type, and the length of the data less one.
Delimiter(type, data) == 48 + type + (IF data = <<>> THEN 0 ELSE Len(data) - 1)

Construct(type, object, data) ==
    WithChecksum(<<Delimiter(type, data), 0, object>> \o data)

\* A bytearray takes bytes only: anything else raises.
Constructible(telegram) == \A i \in 1 .. Len(telegram) : telegram[i] \in Byte

Checked(answer) == SubSeq(answer, 1, Len(answer) - 2)

\* mutant: the low byte alone is compared.
LowChecksumMatches(answer) == answer[Len(answer)] = Low(Total(Checked(answer)))

ChecksumMatches(answer) ==
    /\ answer[Len(answer) - 1] = High(Total(Checked(answer)))
    /\ answer[Len(answer)] = Low(Total(Checked(answer)))

Accepted(answer) == Len(answer) >= 5 /\ ChecksumMatches(answer)

Binary(answer) == SubSeq(answer, 4, Len(answer) - 2)

Integer(answer) == 256 * answer[4] + answer[5]

\* mutant: the bytes are in the wrong order.
SplitSwapped(word) == <<Low(word), High(word)>>

Split(word) == <<High(word), Low(word)>>

\* round of Python: to the nearest, and half way to the even one.
Rounded(a, b) ==
    LET q == a \div b
        r == a % b
    IN  IF 2 * r < b \/ (2 * r = b /\ q % 2 = 0) THEN q ELSE q + 1

\* Voltages and currents are in tenths of their unit; the supply counts in
\* parts of 25600 of its nominal value, which is in units.
FullScale == 25600

\* mutant: int without round.
Truncated(tenths, nominal) == (FullScale * tenths) \div (10 * nominal)

Word(tenths, nominal) == Rounded(FullScale * tenths, 10 * nominal)

\* The value read back is nominal * word / 25600: within half a step of it.
Reads(word, nominal, tenths) ==
    LET error == 10 * nominal * word - FullScale * tenths
    IN  2 * error \in -(10 * nominal) .. 10 * nominal
===============================================================================
