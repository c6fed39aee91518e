---------------------------- MODULE MCDetection -----------------------------
EXTENDS Detection
CONSTANT none

MCTimes == 0 .. 3
MCValues == {"a", "b"}

Row(t, ip, type, password, tags, words) ==
  [ts |-> t, src_ip |-> ip, event_type |-> type, password |-> password, tags |-> tags,
   command |-> words, threat_score |-> none]
MCEventKinds ==
  {Row(0, "ip1", "auth", "p", {}, none), Row(1, "ip1", "auth", "q", {}, none),
   Row(1, "ip1", "auth", "p", {}, none), Row(3, "ip1", "auth", "p", {"mirai"}, none),
   Row(4, "ip2", "auth", "p", {}, none), Row(1, "ip2", "command", none, {"mirai"}, {"wget"}),
   [Row(2, "ip1", "command", none, {}, {"ls"}) EXCEPT !.threat_score = 50]}

Rule(id, type, group, where) ==
  [id |-> id, type |-> type, enabled |-> TRUE, window_minutes |-> 2, group_by |-> group, threshold |-> 2,
   distinct_field |-> "password", where |-> where, numerator_where |-> <<<<"event_type", "eq", "auth">>>>,
   severity |-> "high", mitre |-> {id}]
Auth == <<"event_type", "eq", "auth">>
Broken == Rule("broken", "match", "src_ip", <<<<"event_type", "eq", "command">>, <<"tags", "bogus", 1>>>>)
Burst == Rule("burst", "threshold", "src_ip", <<Auth>>)
Spread == Rule("spread", "distinct", "src_ip", <<<<"event_type", "one of", {"auth", "command"}>>>>)
Spray == [Rule("spray", "distinct", "password", <<Auth>>) EXCEPT !.distinct_field = "src_ip", !.mitre = {"burst"}]
Mirai == Rule("mirai", "match", "password", <<<<"tags", "in_tags", "mirai">>, <<"threat_score", "isnull", TRUE>>>>)
Fetch == Rule("fetch", "match", "src_ip", <<<<"command", "contains", "wget">>>>)
Known == Rule("known", "match", "src_ip", <<<<"threat_score", "gte", 50>>, <<"threat_score", "lte", 50>>>>)
Share == [Rule("share", "ratio", "src_ip", <<>>) EXCEPT !.threshold = 75]
MCRuleFiles ==
  {<<Broken, Burst, Spread>>, <<Burst, Spray, Mirai>>, <<Fetch, Known, Share>>,
   <<Burst, Burst>>, <<[Burst EXCEPT !.window_minutes = 0]>>}

Seen(day, type, service, rank, tags) ==
  [day |-> day, type |-> type, service |-> service, rank |-> rank, tags |-> tags, session |-> "s1",
   username |-> NoText, password |-> NoText, path |-> NoText, threat |-> 0]
MCSeenKinds ==
  {[Seen(0, "auth_attempt", "ssh", 1, {}) EXCEPT !.username = "root", !.password = p] : p \in {"p", "q"}}
    \cup {Seen(1, "auth_success", "ssh", 3, {}), Seen(1, "command", "telnet", 4, {"second-stage-url"}),
          [Seen(0, "http_request", "http", 2, {"log4shell"}) EXCEPT !.path = "/x", !.threat = 100],
          [Seen(2, "http_request", "http", 0, {}) EXCEPT !.path = "/y", !.session = "s2"],
          Seen(0, "command", "telnet", 2, {"mirai-signature"}), Seen(3, "file_upload", "ftp", 2, {})}

Print_(creds, users, paths, payloads) ==
  [credentials |-> creds, usernames |-> users, paths |-> paths, payloads |-> payloads,
   tags |-> {}, services |-> {"ssh"}]
MCFingerprints ==
  {Print_({"c"}, {"root"}, {}, {}), Print_({"c", "d"}, {"root", "bob"}, {}, {}), Print_({"d"}, {"bob"}, {}, {}),
   Print_({}, {}, {"/x"}, {"h"}), Print_({"d"}, {}, {}, {"h"}), Print_({}, {}, {}, {})}
=============================================================================
