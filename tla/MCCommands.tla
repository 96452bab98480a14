----------------------------- MODULE MCCommands -----------------------------
EXTENDS Commands

Contents == UNION {[1 .. n -> {"a", "NUL"}] : n \in 0 .. 4}

\* The kernel's own empty table; one file of up to two buffers; two files of
\* the same name or of different names.
MCTables ==
  {<<>>} \union {<<[name |-> "bin/hello", data |-> d]>> : d \in Contents}
    \union {<<[name |-> n, data |-> <<"a">>], [name |-> "bin/hello", data |-> <<"b", "b">>]>> :
              n \in {"bin/hello", "bin/other"}}
MCNames == {"bin/hello", "bin/other"}

\* Conversions with and without an argument before a number.
MCFormats == {<<"x", "d">>, <<"s", "d", "%", "x">>, <<"%">>, <<>>}
=============================================================================
