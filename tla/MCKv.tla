-------------------------------- MODULE MCKv --------------------------------
(***************************************************************************)
(* Instances of KvService for TLC: what the clients ask for.               *)
(***************************************************************************)
EXTENDS KvService, TLC

CONSTANTS s1, s2, c1, c2, k, a, b

Write(kind, datum) == [kind |-> kind, key |-> k, value |-> datum]
Read == [kind |-> "Get", key |-> k, value |-> Nil]

Both(n, m) == c1 :> n @@ c2 :> m
Scenario(p, again, fails, n, elects, dies) ==
    [program |-> p, retries |-> again, fails |-> fails, entries |-> n,
     elections |-> elects, restarts |-> dies]

\* Two clients write at once, one of them again, while Leaders change and
\* servers restart; one client writes twice, or writes while another reads, and
\* one of them repeats its calls.
Mixed ==
    {Scenario(Both(<<Write("Append", a)>>, <<Write("PutFeature", b)>>),
              Both(1, 0), 0, 2, 2, 1),
     Scenario(Both(<<Write("Put", a), Write("Append", b)>>, <<>>),
              Both(1, 0), 1, 3, 1, 0),
     Scenario(Both(<<Write("Append", a)>>, <<Read>>), Both(0, 1), 1, 2, 1, 0)}

\* One client reads after it wrote.
WriteRead ==
    {Scenario(Both(<<Write("Put", a), Read>>, <<>>), Both(0, 0), 2, 1, 1, 0)}

ServersAlike == Permutations(Server)

=============================================================================
