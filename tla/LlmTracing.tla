----------------------------- MODULE LlmTracing -----------------------------
(***************************************************************************)
(* src/ai/shared/llm_tracing.py: what is known of a request to a model.    *)
(*                                                                         *)
(* A thread has a context, a function from Fields (kept in a ContextVar by *)
(* bind), and a buffer of stamps, NoBuffer outside collect_stamps.  Both   *)
(* with-blocks restore what they found, so a block is an operator on the   *)
(* value it found and its end is that value again.                         *)
(***************************************************************************)
EXTENDS Sequences

None == "none"

RuntimeFields == {"flow_run_id", "task_run_id", "deployment_name"}
Fields == {"entity_type", "entity_id", "kind", "stage"} \union RuntimeFields
EmptyContext == [f \in Fields |-> None]

\* Mutant: a block starts from an empty context, not from the one it found.
BoundAfresh(parent, overrides, runtime) ==
  [f \in Fields |-> IF f \in DOMAIN overrides THEN overrides[f] ELSE None]

(* bind: overrides given as None are kept from the parent; the ids         *)
(* of the Prefect run fill what neither the parent nor the caller has.     *)
Bound(parent, overrides, runtime) ==
  [f \in Fields |->
     CASE f \in DOMAIN overrides -> IF overrides[f] = None THEN parent[f] ELSE overrides[f]
       [] f \in RuntimeFields \ DOMAIN overrides ->
            IF parent[f] = None THEN runtime[f] ELSE parent[f]
       [] OTHER -> parent[f]]

Known(context) == [f \in {g \in Fields : context[g] # None} |-> context[f]]

(* build_request_extras: the metadata of the request, in its body and in a *)
(* header, and its tags; the audio endpoint takes no body.  The direct     *)
(* endpoint would refuse the provider's profanity switch.                  *)
TagFields == {"kind", "stage", "deployment_name"}
Extras(context, label, mode, proxied) ==
  LET known == Known(context)
      metadata == [f \in DOMAIN known \union {"worker_label"} |->
                     IF f = "worker_label" THEN label ELSE known[f]]
  IN  [header |-> metadata,
       tags |-> [f \in TagFields \intersect DOMAIN metadata |-> metadata[f]],
       body |-> IF mode = "audio" THEN {} ELSE DOMAIN metadata,
       profanity_check |-> mode = "chat" /\ proxied]

(* proxy_enabled and resolve_openai_kwargs: env is [enabled, base_url,      *)
(* api_key]; a proxy switched on without an address or a key is not used.  *)
Resolved(env, direct) ==
  IF env.enabled /\ None \notin {env.base_url, env.api_key}
  THEN [base_url |-> env.base_url, api_key |-> env.api_key] ELSE direct

(* stamp_from_response.  A response has an id, headers and, perhaps, usage  *)
(* and model; headers holds those that are well formed, as only they count. *)
Coerced(values, name) == IF name \in DOMAIN values THEN values[name] ELSE None

Headers == {"session_id", "model_id", "cost_usd", "latency_ms", "retries", "fallbacks", "cache_hit"}
OfTheAnswer == {"worker_label", "request_id", "tokens", "model"}
Stamp(context, response, label) ==
  [f \in Fields \union OfTheAnswer \union Headers |->
     CASE f \in Fields -> context[f]
       [] f \in Headers -> Coerced(response.headers, f)
       [] f = "worker_label" -> label
       [] f = "request_id" -> response.id
       [] f = "tokens" -> Coerced(response, "usage")
       [] f = "model" -> Coerced(response, "model")]

\* collect_stamps and push_stamp: outside a collecting block the stamp is dropped.
NoBuffer == [open |-> FALSE, stamps |-> <<>>]
Collecting == [open |-> TRUE, stamps |-> <<>>]
Pushed(buffer, stamp) ==
  IF buffer.open THEN [buffer EXCEPT !.stamps = Append(@, stamp)] ELSE buffer

(* chat_create and transcribe_create: only a request that was answered, and *)
(* whose answer could be read, leaves a stamp.                             *)
NoAnswer == 0
Traced(buffer, context, response, label) ==
  IF response.id = NoAnswer THEN buffer ELSE Pushed(buffer, Stamp(context, response, label))
=============================================================================
