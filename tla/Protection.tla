----------------------------- MODULE Protection -----------------------------
(***************************************************************************)
(* What an answer is taken for (protection.py, fetchers/smart.py) and what *)
(* is tried next (fetchers/escalate.py).  An answer is a status and the    *)
(* signals found in its headers and body: "cf" for Cloudflare in the path, *)
(* "cf_block" and "cf_challenge" for its markers, "datadome", "captcha",   *)
(* "akamai" for the edge block, "shell" for a page without content.        *)
(***************************************************************************)
EXTENDS Integers

Signals == {"cf", "cf_block", "cf_challenge", "datadome", "captcha", "akamai", "shell"}

\* The named statuses: _RETRYABLE_STATUSES, 401 and 403, FetchResult.ok.
Retryable == {429, 502, 503, 504}
Refusals == {401, 403}
IsOk(a) == a.status \in 200..299
IsError(a) == a.status >= 500

Detection(v, k) == [vendor |-> v, kind |-> k]

\* Named vendors come before a captcha, a captcha before a bare shell.
detect_protection(a) ==
    LET s == a.signals
        cloudflare == s \cap {"cf", "cf_block", "cf_challenge"} # {}
    IN CASE "cf_block" \in s -> Detection("cloudflare", "block")
         [] "cf_challenge" \in s \/ (cloudflare /\ a.status \in {403, 429, 503}) ->
                Detection("cloudflare", "challenge")
         [] "datadome" \in s ->
                Detection("datadome", IF "captcha" \in s \/ a.status \in {403, 405}
                                      THEN "captcha" ELSE "challenge")
         [] "akamai" \in s -> Detection("akamai", "block")
         [] "captcha" \in s -> Detection("unknown", "captcha")
         [] "shell" \in s -> Detection("none", "shell")
         [] OTHER -> Detection("none", "none")

detect_akamai_block(a) == "akamai" \in a.signals
needs_browser(a) == "shell" \in a.signals

\* The first rung for a detection: nothing, an impersonated retry, a browser.
FirstRung(d) ==
    CASE d.vendor = "none" -> "none"
      [] d.vendor = "cloudflare" -> IF d.kind = "block" THEN "none" ELSE "browser"
      [] d.vendor = "akamai" -> "impersonate"
      [] OTHER -> "browser"

\* The rung after an impersonated retry has answered.
SecondRung(a) == IF detect_akamai_block(a) THEN "browser" ELSE "none"

=============================================================================
