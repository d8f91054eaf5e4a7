---------------------------- MODULE MCPierAgent -----------------------------
\* PierAgent with plans for each adapter, pairs of them, and plans to be refused.
EXTENDS PierAgent

Role(a, m, c) == [adapter |-> a, model |-> m, config |-> c]
Plain(a) == Role(a, "m1", "none")
Kimi(m, c) == Role("kimi", m, c)
OpenCode(m) == Role("opencode", m, "none")
Single(r) == [sound |-> TRUE, topology |-> "single", workflow |-> "single",
              modifier |-> r, reviewer |-> NoRole]
Collab(r, s) == [sound |-> TRUE, topology |-> "collab", workflow |-> "review-loop",
                 modifier |-> r, reviewer |-> s]

GoodPlans ==
    {Single(Plain("claude")), Single(Kimi("k3", "A")), Single(OpenCode("deepseek")),
     Collab(Plain("codex"), Plain("gemini")), Collab(Kimi("k3", "A"), Kimi("k4", "B")),
     Collab(OpenCode("openai"), Plain("codex"))}
BadPlans ==
    {Collab(Kimi("k3", "A"), Kimi("k3", "B")), Single(Kimi("k3", "none")),
     Single(Role("claude", "m1", "A")), Collab(Plain("codex"), NoRole),
     [Single(Plain("codex")) EXCEPT !.reviewer = Plain("codex")],
     [Single(Plain("codex")) EXCEPT !.workflow = "review-loop"],
     [Single(Plain("codex")) EXCEPT !.sound = FALSE], Single(Plain("cursor"))}
MCPlans == GoodPlans \union BadPlans

MCEnvSets ==
    {{}, {"ANTHROPIC_API_KEY"}, {"CLAUDE_CODE_OAUTH_TOKEN"}, {"OPENAI_API_KEY", "OPENAI_BASE_URL"},
     {"CODEX_API_KEY", "GOOGLE_API_KEY", "GOOGLE_GEMINI_BASE_URL"}, {"DEEPSEEK_API_KEY"},
     {"GEMINI_API_KEY", "GEMINI_API_BASE"}, {"KIMI_MODEL_API_KEY", "KIMI_MODEL_BASE_URL"}}
=============================================================================
