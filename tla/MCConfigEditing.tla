-------------------------- MODULE MCConfigEditing --------------------------
(* ConfigEditing on small files: every way config.toml can hold a provider  *)
(* (headers, dotted keys, inline tables), an old Code Switch provider, the  *)
(* user's own entries, and values that cannot be managed.                   *)
EXTENDS ConfigEditing

User == Scalar("user", "plain")
Same == Scalar("relay", "quoted")

TomlAlphabet ==
    {Table(<<"model_providers">>), Table(<<"model_providers", "portico">>),
     Table(<<"model_providers", "other">>), ArrayTable(<<"tools">>),
     Table(<<"model_providers", "code-switch">>),
     KeyValue(<<"model_provider">>, User), KeyValue(<<"theme">>, User),
     KeyValue(<<"base_url">>, Same), KeyValue(<<"base_url">>, User),
     KeyValue(<<"portico", "base_url">>, User),
     KeyValue(<<"model_providers", "other", "name">>, User),
     KeyValue(<<"model_providers">>, Inline(<<>>)),
     KeyValue(<<"model_providers">>, Inline(<<KeyValue(<<"other">>, Inline(<<KeyValue(<<"name">>, User)>>))>>)),
     KeyValue(<<"other">>, Inline(<<>>)),
     KeyValue(<<"model_providers", "portico">>, Array)}

JsonAlphabet ==
    {KeyValue(<<"env">>, Inline(<<>>)), KeyValue(<<"env">>, User), KeyValue(<<"theme">>, User),
     KeyValue(<<"env">>, Inline(<<KeyValue(<<"ANTHROPIC_BASE_URL">>, User), KeyValue(<<"PROXY">>, User)>>)),
     KeyValue(<<"env">>, Inline(<<KeyValue(<<"ANTHROPIC_AUTH_TOKEN">>, Same)>>)),
     KeyValue(<<"hooks">>, Inline(<<>>))}

EnvAlphabet ==
    {EnvLine("GEMINI_API_KEY", "user", TRUE, "export", TRUE), EnvLine("GEMINI_API_KEY", "other", FALSE, "bare", TRUE),
     EnvLine("GOOGLE_GEMINI_BASE_URL", "relay", TRUE, "comment", TRUE), EnvLine("PROJECT", "user", FALSE, "bare", TRUE),
     [EnvLine("GEMINI_API_KEY", "user", TRUE, "bare", TRUE) EXCEPT !.sound = FALSE],
     EnvLine(NoKey, "comment", FALSE, "bare", TRUE)}

TwoFields == <<"name", "base_url">>
=============================================================================
