------------------------------ MODULE Library ------------------------------
(***************************************************************************)
(* lib/libc/string.c on a memory of a few bytes, and lib/math/math.c on    *)
(* short words.  A program fills the memory and makes one call: what a     *)
(* call does depends on nothing else.  Calls that the C language leaves    *)
(* undefined on the way (strings without an end, a strcpy over its own     *)
(* source, sums beyond an int) are not made.                               *)
(***************************************************************************)
EXTENDS Integers

CONSTANTS MEMORY,         \* its size
          Bytes,          \* values of a byte; 0 ends a string
          WORD            \* 2^32: one more than the largest uint32_t

ASSUME LibraryConstants == MEMORY \in Nat \ {0} /\ Bytes \subseteq Nat /\ 0 \in Bytes /\ WORD \in Nat \ {0}

Cells == 0 .. MEMORY - 1

VARIABLES memory,
          call,           \* ghost: the call made, or <<>>
          given,          \* ghost: the memory before it
          returned

library_vars == <<memory, call, given, returned>>

LibraryInit ==
  /\ memory = [a \in Cells |-> 0]
  /\ call = <<>> /\ given = memory /\ returned = 0

\* The program's own stores.
Store(a, b) ==
  /\ call = <<>>
  /\ memory' = [memory EXCEPT ![a] = b] /\ given' = memory'
  /\ UNCHANGED <<call, returned>>

Call(c, m, r) ==
  /\ call = <<>> /\ call' = c
  /\ memory' = m /\ returned' = r
  /\ UNCHANGED given

\* The loops go upwards, one byte at a time.
MutCopied(m, d, s, n) ==
  LET after[k \in 0 .. n] ==
        IF k = 0 THEN m ELSE [after[k - 1] EXCEPT ![d + n - k] = after[k - 1][s + n - k]]
  IN  after[n]

Copied(m, d, s, n) ==
  LET after[k \in 0 .. n] ==
        IF k = 0 THEN m ELSE [after[k - 1] EXCEPT ![d + k - 1] = after[k - 1][s + k - 1]]
  IN  after[n]

memcpy(d, s, n) ==
  /\ d + n <= MEMORY /\ s + n <= MEMORY
  /\ Call(<<"memcpy", d, s, n>>, Copied(memory, d, s, n), d)

memset(s, c, n) ==
  /\ s + n <= MEMORY
  /\ Call(<<"memset", s, c, n>>, [a \in Cells |-> IF a \in s .. s + n - 1 THEN c ELSE memory[a]], s)

IsString(s) == \E e \in s .. MEMORY - 1 : memory[e] = 0

Length(s) ==
  LET from[k \in s .. MEMORY - 1] == IF memory[k] = 0 THEN 0 ELSE 1 + from[k + 1] IN from[s]

strlen(s) == IsString(s) /\ Call(<<"strlen", s>>, memory, Length(s))

strcmp(s1, s2) ==
  LET differ[k \in 0 .. MEMORY] ==
        IF memory[s1 + k] # 0 /\ memory[s1 + k] = memory[s2 + k] THEN differ[k + 1]
        ELSE memory[s1 + k] - memory[s2 + k]
  IN  /\ IsString(s1) /\ IsString(s2)
      /\ Call(<<"strcmp", s1, s2>>, memory, differ[0])

strcpy(d, s) ==
  /\ IsString(s) /\ d + Length(s) < MEMORY
  /\ d \notin s + 1 .. s + Length(s)
  /\ Call(<<"strcpy", d, s>>, Copied(memory, d, s, Length(s) + 1), d)

\* The numbers, which no memory matters to.
pow_u32(base, exp) ==
  LET power[b \in 0 .. WORD - 1, e \in 0 .. WORD - 1, r \in 0 .. WORD - 1] ==
        IF e = 0 THEN r
        ELSE power[(b * b) % WORD, e \div 2, IF e % 2 = 1 THEN (r * b) % WORD ELSE r]
  IN  Call(<<"pow_u32", base, exp>>, memory, power[base, exp, 1])

\* x & (x - 1) clears the lowest bit that is set.
WithoutLowestBit(x) ==
  LET top[w \in 0 .. WORD] == IF x % (2 ^ (w + 1)) # 0 THEN x - 2 ^ w ELSE top[w + 1] IN top[0]

is_power_of_two(x) ==
  Call(<<"is_power_of_two", x>>, memory, IF x # 0 /\ WithoutLowestBit(x) = 0 THEN 1 ELSE 0)

div_round_up(a, b) ==
  /\ a + b - 1 < WORD \div 2
  /\ Call(<<"div_round_up", a, b>>, memory, (a + b - 1) \div b)

LibraryNext ==
  \/ \E a \in Cells, b \in Bytes : Store(a, b)
  \/ \E x, y \in Cells, n \in 0 .. MEMORY : memcpy(x, y, n) \/ memset(x, 1, n)
  \/ \E x \in Cells : strlen(x)
  \/ \E x, y \in Cells : strcmp(x, y) \/ strcpy(x, y)
  \/ /\ \A a \in Cells : memory[a] = 0
     /\ \/ \E x, y \in 0 .. WORD - 1 : pow_u32(x, y)
        \/ \E x \in 0 .. WORD - 1 : is_power_of_two(x)
        \/ \E x \in 0 .. WORD \div 2 - 1, y \in 1 .. WORD \div 2 - 1 : div_round_up(x, y)
-----------------------------------------------------------------------------
\* The string at s in the memory a call was given.
End(s) == CHOOSE e \in s .. MEMORY - 1 : given[e] = 0 /\ \A k \in s .. e - 1 : given[k] # 0
Size(s) == End(s) - s

\* The bytes a call stores, from where on, and the only ones it may change.
Stored(d, byte, n) ==
  \A a \in Cells : memory[a] = IF a \in d .. d + n - 1 THEN byte[a - d] ELSE given[a]
From(s) == [k \in 0 .. MEMORY - s - 1 |-> given[s + k]]

Before(s, t) == \E k \in 0 .. Size(s) : /\ \A j \in 0 .. k - 1 : given[s + j] = given[t + j]
                                        /\ given[s + k] < given[t + k]

Does(c) ==
  CASE c[1] = "memcpy" -> c[2] \in c[3] + 1 .. c[3] + c[4] - 1 \/ Stored(c[2], From(c[3]), c[4])
    [] c[1] = "memset" -> Stored(c[2], [k \in 0 .. c[4] |-> c[3]], c[4])
    [] c[1] = "strlen" -> returned = Size(c[2])
    [] c[1] = "strcmp" -> /\ returned < 0 <=> Before(c[2], c[3])
                          /\ returned > 0 <=> Before(c[3], c[2])
    [] c[1] = "strcpy" -> Stored(c[2], From(c[3]), Size(c[3]) + 1)
    [] c[1] = "pow_u32" ->
         LET p[e \in 0 .. c[3]] == IF e = 0 THEN 1 ELSE (c[2] * p[e - 1]) % WORD IN returned = p[c[3]]
    [] c[1] = "is_power_of_two" -> returned = 1 <=> \E w \in 0 .. WORD : c[2] = 2 ^ w
    [] c[1] = "div_round_up" -> /\ returned * c[3] >= c[2]
                                /\ (returned - 1) * c[3] < c[2]

(* The library's functions do what their names say on every memory: memcpy   *)
(* also moves a block down over its own source, and only up it may not;      *)
(* strcpy copies the terminator and nothing behind it; strcmp is the         *)
(* lexicographic order; pow_u32 squares and multiplies to the power modulo   *)
(* the word; and no function stores outside its target.                      *)
LibraryExact == call # <<>> => Does(call)
=============================================================================
