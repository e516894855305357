------------------------------ MODULE MCServer ------------------------------
(***************************************************************************)
(* The way of a request: connections, the request parsers, and the commands *)
(* with the shards they call.  A behaviour is one of one of them, `lib`.    *)
(***************************************************************************)
EXTENDS Connection, Redis, TLC

VARIABLES lib,
    kind, todo, sent, text, p, m, phase, parsed

(* Words of line ends and markers, pairs of requests of up to three words *)
CR == "cr"
LF == "lf"
Words == {<<>>, <<"x">>, <<CR, LF>>, <<"$", "1">>, <<LF, "*">>}
Requests == {<<<<"x">>>>} \cup {<<<<"x">>, w>> : w \in Words} \cup {<<<<"x">>, v, w>> : v \in Words \ {<<"x">>}, w \in {<<>>, <<CR, LF>>}}
MCPairs == {<<r, s>> : r, s \in Requests}
P == INSTANCE Parser WITH Scripts <- MCPairs, buf <- text

MCKeys     == {"k1", "k2"}
MCMembers  == {"", "a", "b", "k1"}
MCOwner    == "k1" :> "cpu1" @@ "k2" :> "cpu2"
MCHome     == "c1" :> "cpu1" @@ "c2" :> "cpu2"
MCNumerals == "-1" :> -1 @@ "0" :> 0 @@ "1" :> 1 @@ "7" :> 7
MCBytes    == "a" :> <<3>> @@ "b" :> <<5, 7>>
MCGeoHash  == <<0, 0>> :> 0 @@ <<0, 1>> :> 1

(* Writers that leave a key of every type, then every command on it.       *)
Writers == {
    <<"set", "k1", "a">>, <<"set", "k1", "b", "EX", "1">>, <<"incr", "k1">>, <<"append", "k1", "b">>,
    <<"lpush", "k1", "a">>, <<"rpush", "k1", "a", "b", "a">>, <<"hset", "k1", "a", "b">>, <<"hincrby", "k1", "a", "1">>,
    <<"hmset", "k1", "a", "b">>, <<"sadd", "k1", "a", "b", "a">>, <<"zadd", "k1", "1", "a", "0", "b">>,
    <<"zadd", "k1", "xx", "1", "a">>, <<"geoadd", "k1", "0", "1", "a">>, <<"zincrby", "k1", "1", "a">>}

Others == {
    <<"get", "k1">>, <<"strlen", "k1">>, <<"set", "k1", "b", "NX">>, <<"set", "k1", "b", "XX">>, <<"set", "k1", "b", "PX">>,
    <<"set", "k1", "b", "abc">>, <<"decr", "k1">>, <<"incrby", "k1", "a">>, <<"decrby", "k1", "1">>, <<"ping">>, <<"command">>,
    <<"lpushx", "k1", "a">>, <<"rpushx", "k1", "b">>, <<"lpop", "k1">>, <<"rpop", "k1">>, <<"llen", "k1">>,
    <<"lindex", "k1", "-1">>, <<"lindex", "k1", "1">>, <<"linsert", "k1", "BEFORE", "a", "b">>, <<"lrange", "k1", "0", "-1">>,
    <<"lset", "k1", "0", "b">>, <<"ltrim", "k1", "0", "0">>, <<"lrem", "k1", "0", "a">>, <<"lrem", "k1", "-1", "b">>,
    <<"hdel", "k1", "a">>, <<"hdel", "k1", "a", "b">>, <<"hexists", "k1", "a">>, <<"hincrbyfloat", "k1", "a", "1">>,
    <<"hincrby", "k1", "b", "1">>, <<"hlen", "k1">>, <<"hstrlen", "k1", "a">>, <<"hget", "k1", "a">>, <<"hget", "k1", "b">>,
    <<"hgetall", "k1">>, <<"hkeys", "k1">>, <<"hvals", "k1">>, <<"hmget", "k1", "a", "b">>,
    <<"smembers", "k1">>, <<"scard", "k1">>, <<"sismember", "k1", "a">>, <<"srem", "k1", "a", "a">>, <<"srandmember", "k1", "7">>,
    <<"spop", "k1">>, <<"spop", "k1", "-1">>, <<"spop", "k1", "x">>, <<"type", "k1">>, <<"expire", "k1", "0">>,
    <<"pexpire", "k1", "1">>, <<"pttl", "k1">>, <<"ttl", "k1">>, <<"persist", "k1">>,
    <<"zadd", "k1", "nx", "1", "b">>, <<"zadd", "k1", "incr", "1", "a">>, <<"zadd", "k1", "incr", "1">>, <<"zadd", "k1", "1">>,
    <<"zcard", "k1">>, <<"zrange", "k1", "0", "-1", "WITHSCORES">>, <<"zrevrange", "k1", "0", "1">>, <<"zrange", "k1", "0", "x">>,
    <<"zrangebyscore", "k1", "0", "1">>, <<"zrevrangebyscore", "k1", "1", "1", "WITHSCORES">>, <<"zcount", "k1", "0", "1">>,
    <<"zcount", "k1", "0">>, <<"zrank", "k1", "a">>, <<"zrevrank", "k1", "a">>, <<"zrem", "k1", "a", "b">>, <<"zscore", "k1", "a">>,
    <<"zremrangebyscore", "k1", "0", "1">>, <<"zremrangebyrank", "k1", "0", "1">>, <<"zinterstore", "k1", "1", "k2">>,
    <<"geoadd", "k1", "7", "7", "a">>, <<"geoadd", "k1", "0", "x", "a">>, <<"geodist", "k1", "a", "b">>, <<"geodist", "k1", "a", "a", "x">>,
    <<"geohash", "k1", "a", "b">>, <<"geopos", "k1", "a">>, <<"georadius", "k1">>, <<"setbit", "k1", "7", "0">>, <<"setbit", "k1", "7", "1">>,
    <<"getbit", "k1", "7">>, <<"bitcount", "k1", "0", "-1">>, <<"bitcount", "k1", "1", "-1">>, <<"pfadd", "k1", "a">>, <<"pfcount", "k1">>,
    <<"pfmerge", "k1">>, <<"get">>, <<"unknown">>}

(* Commands over two keys against commands that change them.               *)
Wide == {
    <<"del", "k1", "k2">>, <<"del", "k2", "k2">>, <<"del">>, <<"exists", "k1", "k2">>, <<"mget", "k1", "k2">>, <<"mset", "k1", "a", "k2", "b">>,
    <<"mset", "k1">>, <<"sunion", "k1", "k2">>, <<"sdiff", "k1", "k2">>, <<"sinter", "k1", "k2">>, <<"sunion", "k1">>,
    <<"sunionstore", "k2", "k1", "k2">>, <<"sdiffstore", "k2", "k1", "k2">>, <<"sinterstore", "k2", "k1", "k2">>, <<"smove", "k1", "k2", "a">>,
    <<"select", "0">>, <<"select", "7">>, <<"zunionstore", "k2", "2", "k1", "k2">>, <<"zunionstore", "k2", "1", "k1", "WEIGHTS", "7">>,
    <<"zunionstore", "k2", "1", "k1", "AGGREGATE", "MIN">>, <<"zunionstore", "k2", "1", "k1", "AGGREGATE">>, <<"zunionstore", "k2", "7", "k1">>}

Scenes == {
    <<<<<<"sadd", "k1", "a">>>>, <<<<"sadd", "k2", "a", "b">>, <<"srem", "k1", "a">>>>>>,
    <<<<<<"sadd", "k1", "a", "b">>>>, <<<<"sadd", "k2", "b">>, <<"smove", "k2", "k1", "b">>>>>>,
    <<<<<<"mset", "k1", "a", "k2", "b">>>>, <<<<"del", "k1", "k2">>>>>>,
    <<<<<<"sadd", "k1", "a">>>>, <<<<"set", "k2", "a">>, <<"smove", "k1", "k2", "a">>>>>>,
    <<<<<<"zadd", "k1", "1", "a">>>>, <<<<"zadd", "k2", "0", "a", "1", "b">>>>>>}

MCScripts ==
    {"c1" :> <<w, q>> @@ "c2" :> <<>> : w \in Writers, q \in Others \cup Writers}
      \cup {"c1" :> s[1] \o <<w>> @@ "c2" :> s[2] : s \in Scenes, w \in Wide}

--------------------------------------------------------------------------------

parserVars == <<kind, todo, sent, text, p, m, phase, parsed>>

NoParser == kind = 0 /\ todo = 0 /\ sent = 0 /\ text = 0 /\ p = 0 /\ m = 0 /\ phase = 0 /\ parsed = 0
NoClients == client = [c \in Clients |-> "closed"] /\ NoConnectionYet
NoCommands == NoCommandYet /\ script = [c \in Conns |-> <<>>]

MCInit ==
    \/ lib = "connection" /\ Init /\ NoParser /\ NoCommands
    \/ lib = "parser" /\ NoClients /\ P!ParserInit /\ NoCommands
    \/ lib = "commands" /\ NoClients /\ NoParser /\ RedisInit

MCNext ==
    \/ lib = "connection" /\ Next /\ UNCHANGED <<lib, parserVars, redisVars>>
    \/ lib = "parser" /\ P!ParserNext /\ UNCHANGED <<lib, vars, redisVars>>
    \/ lib = "commands" /\ RedisNext /\ UNCHANGED <<lib, vars, parserVars>>

MCSpec == MCInit /\ [][MCNext]_<<lib, vars, parserVars, redisVars>> /\ Fairness /\ ShardsServe

--------------------------------------------------------------------------------

\* The parsers hand on what was sent: RequestsExact of Parser.
RequestsExact == lib = "parser" => P!RequestsExact
=============================================================================
