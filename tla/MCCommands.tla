------------------------------ MODULE MCCommands ------------------------------
(* Instances of Commands for TLC: which methods the program calls.         *)
EXTENDS Commands

\* The classes of library/*Commands.php.
Library ==
  {"APPEND", "AUTH", "BGREWRITEAOF", "BGSAVE", "BLPOP", "BRPOP", "BRPOPLPUSH",
   "CONFIG_GET", "CONFIG_RESETSTAT", "CONFIG_SET", "DBSIZE", "DEBUG_OBJECT", "DECR",
   "DECRBY", "DEL", "DISCARD", "EXEC", "EXISTS", "EXPIRE", "EXPIREAT", "FLUSHALL",
   "FLUSHDB", "GET", "GETSET", "HDEL", "HEXISTS", "HGET", "HGETALL", "HINCRBY", "HKEYS",
   "HLEN", "HMGET", "HMSET", "HSET", "HSETNX", "HVALS", "INCR", "INCRBY", "INFO",
   "KEYS", "LASTSAVE", "LINDEX", "LINSERT", "LLEN", "LPOP", "LPUSH", "LPUSHX", "LRANGE",
   "LREM", "LSET", "LTRIM", "MGET", "MONITOR", "MOVE", "MSET", "MSETNX", "MULTI",
   "PERSIST", "PING", "PSUBSCRIBE", "PUBLISH", "PUNSUBSCRIBE", "QUIT", "RANDOMKEY",
   "RENAME", "RENAMENX", "RPOP", "RPOPLPUSH", "RPUSH", "RPUSHX", "SADD", "SAVE",
   "SCARD", "SDIFF", "SDIFFSTORE", "SELECT", "SET", "SETEX", "SETNX", "SHUTDOWN",
   "SINTER", "SINTERSTORE", "SISMEMBER", "SLAVEOF", "SLOWLOG", "SMEMBERS", "SMOVE",
   "SORT", "SPOP", "SRANDMEMBER", "SREM", "STRLEN", "SUBSCRIBE", "SUNION",
   "SUNIONSTORE", "TTL", "TYPE", "UNSUBSCRIBE", "UNWATCH", "WATCH", "ZADD", "ZCARD",
   "ZCOUNT", "ZINCRBY", "ZINTERSTORE", "ZRANGE", "ZRANGEBYSCORE", "ZRANK", "ZREM",
   "ZREMRANGEBYRANK", "ZREMRANGEBYSCORE", "ZREVRANGE", "ZREVRANGEBYSCORE", "ZREVRANK",
   "ZSCORE", "ZUNIONSTORE", "_ECHO"}

\* The classes with a usage line that do what it says; those with pairs as a
\* reply take QUEUED for a list without elements.
Conforming ==
  {name \in Library : Documented(name)}
    \ (TooLax \cup TooStrict \cup Unknown \cup Uncatchable \cup Lossy \cup Pairs)
ConformingAndUnknown == Conforming \cup {"FOO"}

\* One kind of argument for each set of validators that accepts it, and of the
\* empty ones both '' and NULL.
OneOfAKind ==
  {"key", "text", "empty", "null", "int", "negative", "whole", "float", "array", "withscores",
   "BEFORE"}

Scalars == AllValues \ {"hollow", "array"}
===============================================================================
