----------------------------- MODULE MCBackend ------------------------------
EXTENDS Backend

MCIpOf == [c \in Conns |-> IF c = "c1" THEN "ip1" ELSE "ip2"]

MCCityDbs == {<<>>, <<FALSE, TRUE>>}

Entry(kind, net, prefix, source) == [kind |-> kind, net |-> net, prefix |-> prefix, source |-> source]
MCFeeds ==
  {{Entry("ip", {"a"}, 32, 1), Entry("cidr", {"a", "b"}, 24, 2), Entry("cidr", {"a", "b", "c"}, 16, 1)},
   {Entry("cidr", {"a", "b"}, 24, 1), Entry("cidr", {"a", "b"}, 24, 2)}}
=============================================================================
