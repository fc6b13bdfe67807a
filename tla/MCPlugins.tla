------------------------------ MODULE MCPlugins ------------------------------
(* Chains of every category, before and after a reload; names that two       *)
(* chains share, that no table has, and settings that are refused.           *)
EXTENDS PluginsProps, TLC

KeyAuthConf(keys, hide) == [category |-> "key_auth", keys |-> keys, hide_credentials |-> hide]
IpConf(type, list)      == [category |-> "ip_restriction", type |-> type, ip_list |-> list]
LimitConf(by, max)      == [category |-> "rate_limit", requests_per_minute |-> max, key |-> by]
SizeConf(max)           == [category |-> "max_size", max_body_bytes |-> max]
KeywordsConf            == [category |-> "keyword_block", keywords |-> {"bad"}]
CacheConf(max)          == [category |-> "cache", max_entries |-> max]
ScanConf(category, action, custom) ==
  [category |-> category, action |-> action, mode |-> None, patterns |-> None,
   rules |-> custom, custom |-> custom]

Config(plugins, global, route) == [plugins |-> plugins, global |-> global, route |-> route]

MCConfigs ==
  {<<Config(("auth" :> KeyAuthConf({"k1", "k2"}, TRUE)) @@ ("limit" :> LimitConf("client_id", 1)),
            <<"auth", "limit">>, <<>>),
     Config("auth" :> KeyAuthConf({}, None), <<"auth">>, <<>>),
     Config(("auth" :> KeyAuthConf({"k2"}, FALSE)) @@ ("limit" :> LimitConf(None, 1)),
            <<"auth">>, <<"limit", "gone">>)>>,
   <<Config(("ip" :> IpConf("allow", {"ip1", Broken})) @@ ("size" :> SizeConf(1))
              @@ ("scan" :> ScanConf("secret_scan", None, None)) @@ ("cors" :> [category |-> "cors"]),
            <<"ip", "size">>, <<"cors", "scan">>),
     Config("rules" :> ScanConf("regex_guard", "block", {Broken}), <<"rules">>, <<>>),
     Config(("ip" :> IpConf(None, {"ip1"})) @@ ("limit" :> LimitConf("header", 1))
              @@ ("words" :> KeywordsConf) @@ ("scan" :> ScanConf("pii_filter", "log_only", None)),
            <<"ip", "limit">>, <<"words", "scan">>)>>,
   <<Config("cache" :> CacheConf(None), <<"cache">>, <<>>),
     Config(("cache" :> CacheConf(0)) @@ ("guard" :> ScanConf("prompt_guard", None, {"bad"})),
            <<"cache">>, <<"guard">>)>>,
   <<Config(("limit" :> LimitConf("client_ip", 2)) @@ ("cache" :> CacheConf(1)),
            <<"limit", "cache">>, <<"limit">>),
     Config(("small" :> CacheConf(1)) @@ ("auth" :> KeyAuthConf({"k1"}, None)),
            <<"small", "auth">>, <<"small">>)>>,
   <<Config("limit" :> LimitConf(None, -1), <<"limit">>, <<>>)>>}

Client(ip, key, length, query, nocache) ==
  [ip |-> ip, key |-> key, length |-> length, query |-> query, nocache |-> nocache]

MCClients ==
  {Client("ip1", "k1", 1, {}, FALSE), Client("ip1", "k2", None, {}, FALSE),
   Client("ip2", None, 2, {"bad"}, TRUE), Client("ip1", "k1", 1, {"secret"}, FALSE)}

Answer(status, chunks) == [status |-> status, chunks |-> chunks]

MCAnswers == {Answer(200, <<"a", "b">>), Answer(200, <<"c">>), Answer(200, <<"a">>), Answer(500, <<"e">>)}

RequestSymmetry == Permutations(Requests)
=============================================================================
