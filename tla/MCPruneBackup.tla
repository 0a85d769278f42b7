--------------------------- MODULE MCPruneBackup ----------------------------
(* A model-checking instance of PruneBackup: two backup zones m and n, the *)
(* root r, and a fragment f that m and r may include.                      *)
EXTENDS PruneBackup
LOCAL INSTANCE SequencesExt

RR(o, t, d) ==
  [kind |-> "rr", same |-> FALSE, owner |-> o, type |-> t, data |-> d]

Same(t, d) ==
  [kind |-> "rr", same |-> TRUE, owner |-> <<>>, type |-> t, data |-> d]

Frag == [kind |-> "include", file |-> "f"]
Note == [kind |-> "note"]

NS == RR(<<>>, "NS", <<"ns", "r">>)
T1 == RR(<<"w">>, "TXT", <<"t1">>)
T2 == RR(<<"w">>, "TXT", <<"t2">>)
MX == RR(<<"w">>, "MX", <<"x", "r">>)
MXIn == RR(<<"w">>, "MX", <<"x", "r", "cdn">>)   \* the root's label inside
AA == RR(<<"w">>, "A", <<"ip">>)

MCBackupOrigin == <<"b">>
MCRootOrigin   == <<"r">>
MCFiles        == <<"f", "m", "n", "r">>
MCQNames       == {<<"w", "b">>, <<"b">>}

Lists(S, n) == {s \in SeqOf(S, n) : IsInjective(s)}

Contents4(F, M, R) ==
  {[p \in {"f", "m", "n", "r"} |->
      CASE p = "f" -> f [] p = "m" -> m [] p = "n" -> <<T1, AA>>
        [] p = "r" -> r] : f \in F, m \in M, r \in R}

MCContents ==
  Contents4({<<T1>>, <<T2>>},
            Lists({T1, T2, MX, AA, Frag}, 2)
              \cup {<<NS, T1, Note>>, <<Note, NS, AA>>, <<Frag, AA, T2>>,
                    <<T1, T2, AA>>, <<MX, AA, Frag>>,
                    <<MXIn, T1>>, <<Frag, MXIn>>,
                    <<NS, Same("NS", <<"ns2", "r">>), T1>>,
                    <<AA, Same("TXT", <<"t2">>)>>},
            {<<T1>>, <<T2, T1>>, <<T2, Frag>>, <<MX>>,
             <<T1, MXIn>>})

Pair(b, r) == [backup |-> b, root |-> r]

MCTopologies ==
  {<<Pair("m", "r")>>, <<Pair("m", "r"), Pair("m", "none")>>,
   <<Pair("m", "r"), Pair("n", "r")>>, <<Pair("m", "none")>>}
=============================================================================
