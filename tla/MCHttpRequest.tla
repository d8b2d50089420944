---------------------------- MODULE MCHttpRequest ----------------------------
(***************************************************************************)
(* Small instances of HttpRequest for TLC.                                 *)
(***************************************************************************)
EXTENDS HttpRequest

Plain(retry) ==
    [retry |-> retry, timeout |-> {}, fieldsOK |-> TRUE, urlOK |-> TRUE]

\* No retries, one, two; the boundaries of both options; what is rejected.
SmallConfigs ==
    {Plain({}), Plain({0}), Plain({1}), Plain({2}), Plain({-1}), Plain({11})}
    \cup {[Plain({1}) EXCEPT !.timeout = {t}] : t \in {0, 1, 86400000, 86400001}}
    \cup {[Plain({1}) EXCEPT !.fieldsOK = FALSE],
          [Plain({1}) EXCEPT !.urlOK = FALSE]}
==============================================================================
