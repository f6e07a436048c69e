------------------------------ MODULE MCTools ------------------------------
(***************************************************************************)
(* Tools on all logs of up to three and five records of three kinds, two   *)
(* of them with one key, and on archives of two members of up to two bytes *)
(* each, anywhere: overlapping, short, empty, past the end, or truncated.  *)
(***************************************************************************)
EXTENDS Tools, TLC

Records == {<<1, 0>>, <<1, 1>>, <<2, 0>>}
UpTo(n) == UNION {[1 .. k -> Records] : k \in 0 .. n}
MCLogs == UpTo(3) \X UpTo(5)
MCWindow == [difftest |-> 3, diffwrites |-> 2]
MCRun == [difftest |-> 2, diffwrites |-> 2]

MCFlat == ("a" :> "a") @@ ("x/y" :> "x_y") @@ ("x_y" :> "x_y") @@ ("" :> "")
MCUnwritable == {""}
Entry(name, ends, offset, length) ==
  [name |-> name, ends |-> ends, offset |-> offset, length |-> length]
Entries == {Entry(n, TRUE, o, l) : n \in DOMAIN MCFlat, o \in 3 .. 5, l \in 0 .. 3}
Blobs == {<<9, 9, 9>> \o b : b \in [1 .. 3 -> {0, 1, 2}]}
Archive(magic, blob, entries) ==
  [magic |-> magic, blob |-> blob, count |-> Len(entries), entries |-> entries]
MCArchives ==
  {Archive(TRUE, b, <<e, f>>) : b \in Blobs, e \in Entries,
                                f \in {g \in Entries : g.name # "a"}}
  \cup {Archive(TRUE, b, <<e>>) : b \in Blobs, e \in Entries}
  \cup {Archive(FALSE, <<9, 9, 9>>, << >>),
        Archive(TRUE, <<9>>, << >>),
        Archive(TRUE, <<9, 9>>, [k \in 1 .. 2 |-> Entry("a", TRUE, 0, 2)]),
        Archive(TRUE, <<9, 9, 9>>, <<Entry("a", FALSE, 0, 3)>>)}
=============================================================================
