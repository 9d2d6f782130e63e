----------------------------- MODULE MCRateLimit -----------------------------
(* One process with two requests at a time, a limit of two, two ticks to     *)
(* live.                                                                      *)
EXTENDS RateLimit

Environment(nodeEnv, driver, fallback, kinds) ==
    [nodeEnv |-> nodeEnv, driver |-> driver, fallback |-> fallback, explicitRedis |-> TRUE,
     kinds |-> kinds]

Logins == {"failedLogin", "goodLogin"}
Codes == {"sendCode"}

Release == Environment("production", "redis", "unset", Logins)

\* One environment for every mode, and what a release must not have. Logins and
\* codes use different keys, so either may come alone.
MCConfigs ==
    { Release,
      Environment("production", "redis", "unset", Codes),
      Environment("production", "redis", "true", Logins),
      Environment("production", "memory", "false", Logins),
      Environment("Production", "redis", "false", Logins),
      Environment("Production", "redis", "true", Logins),
      Environment("Production", "redis", "unset", Codes),
      [Release EXCEPT !.explicitRedis = FALSE],
      Environment("development", "memory", "unset", Codes),
      Environment("development", "redis", "unset", Logins) }

MCTtl == [key \in Keys |-> IF key = "failed" THEN 2 ELSE 1]
MCLimit == [key \in Keys \ {"cooldown"} |-> IF key = "failed" THEN 2 ELSE 1]
=============================================================================
