------------------------------ MODULE MCSession ------------------------------
EXTENDS Session

Opt(s, n, t) == [scheme |-> s, name |-> n, target |-> t]

\* Every scheme and kind of name; a target without a chain with one of them, since
\* the session is the same over either.
AllOpts ==
  {Opt("ws", "ip", t) : t \in {"x86_64", "mips"}}
  \union {Opt("wss", n, "x86_64") : n \in {"localhost", "host", "ip"}}

TwoArch == {"x86_64", "aarch64"}

AllScripts ==
  {<<Message("Ping"), Request("aarch64"), Request("mips")>>,
   <<Request("x86_64"), Message("Garbage"), Request("aarch64")>>,
   <<Message("Close")>>}
=============================================================================
