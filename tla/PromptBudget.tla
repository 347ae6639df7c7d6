---------------------------- MODULE PromptBudget ----------------------------
(***************************************************************************)
(* What a chat request sends to the model: the manager fits the history of *)
(* the conversation into an estimate of the model's context                *)
(* (internal/manager/conversations.go, promptContextPreview), and the      *)
(* worker runs the model with a context size and an output limit of its    *)
(* own (cmd/cmesh/main.go, executeModelGenerate).  The two never exchange  *)
(* these numbers.                                                          *)
(*                                                                         *)
(* A text is its length in runes.  The loop over the messages, newest      *)
(* first, takes one step per message.                                      *)
(***************************************************************************)
EXTENDS Integers, Sequences

CONSTANTS
  Contexts,     \* Context of the models in the catalog
  MaxTokens,    \* max_tokens a request may carry
  Presets,      \* MaxTokens of the quality presets
  Overrides,    \* CMESH_MODEL_CONTEXT_SIZE of the worker, 0 when unset
  SystemTexts,  \* lengths of system prompts
  MemoryTexts,  \* lengths of the memory lines of a model, all together
  Histories,    \* the messages a conversation may hold, oldest first
  TrimLoss      \* blanks TrimSpace may remove from a message that was cut

ASSUME PromptAssumption ==
  /\ Contexts \subseteq Int
  /\ MaxTokens \subseteq Int
  /\ Presets \subseteq Nat \ {0} /\ \A p \in Presets : p <= 2048
  /\ Overrides \subseteq Nat
  /\ SystemTexts \subseteq Nat
  /\ MemoryTexts \subseteq Nat
  /\ Histories \subseteq Seq([role : {"user", "assistant", "system"}, runes : Nat \ {0}])
  /\ TrimLoss \subseteq Nat

DefaultPromptContextTokens   == 4096
PromptContextOverheadTokens  == 128
MinPromptHistoryBudgetTokens == 256

VARIABLES
  request,   \* [context, override, maxTokens, preset, system, memory, messages]
  left,      \* messages 1..left are not looked at yet
  selected,  \* chosen messages, oldest first: [at, runes]
  used       \* their estimated tokens

promptVars == <<request, left, selected, used>>

-----------------------------------------------------------------------------
(* The manager's estimate                                                  *)

EstimateTextTokens(runes) == (runes + 3) \div 4

RoleTokens(role) == EstimateTextTokens(CASE role = "user"      -> 4
                                         [] role = "assistant" -> 9
                                         [] role = "system"    -> 6)

EstimateMessageTokens(msg) == 4 + RoleTokens(msg.role) + EstimateTextTokens(msg.runes)

(* systemPromptWithMemory: the memory lines follow a header of 29 runes,   *)
(* and an empty line when there is a system prompt.                        *)
EffectiveSystemPrompt ==
  CASE request.memory = 0 -> request.system
    [] request.memory # 0 /\ request.system = 0 -> 29 + request.memory
    [] OTHER -> request.system + 2 + 29 + request.memory

(* The handler replaces max_tokens that is not positive by the preset.     *)
EffectiveMaxTokens ==
  IF request.maxTokens <= 0 THEN request.preset ELSE request.maxTokens

(* promptContextBudget: context, output reserve, history budget.           *)
ContextTokens ==
  IF request.context <= 0 \/ request.context > DefaultPromptContextTokens
    THEN DefaultPromptContextTokens ELSE request.context

OutputReserve == IF EffectiveMaxTokens > 2048 THEN 2048 ELSE EffectiveMaxTokens

PlainBudget ==
  ContextTokens - OutputReserve - PromptContextOverheadTokens
    - EstimateTextTokens(EffectiveSystemPrompt)

HistoryBudget ==
  IF PlainBudget < MinPromptHistoryBudgetTokens
    THEN MinPromptHistoryBudgetTokens ELSE PlainBudget

(* truncateChatMessage keeps the end of the text.                          *)
Truncated(runes, budget, loss) ==
  IF runes <= budget * 4 THEN runes
  ELSE IF loss < budget * 4 THEN budget * 4 - loss ELSE 1

-----------------------------------------------------------------------------
(* The loop of promptContextPreview                                        *)

Select(runes) ==
  /\ selected' = <<[at |-> left, runes |-> runes]>> \o selected
  /\ used' = used + 4 + RoleTokens(request.messages[left].role) + EstimateTextTokens(runes)

(* Faults: an older message ends the search, or every message is cut.      *)
ConsiderUntilFull(loss) ==
  LET msg  == request.messages[left]
      cost == EstimateMessageTokens(msg)
  IN  /\ left > 0
      /\ IF selected = <<>> \/ used + cost <= HistoryBudget
           THEN /\ left' = left - 1
                /\ Select(IF selected = <<>> /\ cost > HistoryBudget
                            THEN Truncated(msg.runes, HistoryBudget, loss) ELSE msg.runes)
           ELSE left' = 0 /\ UNCHANGED <<selected, used>>
      /\ UNCHANGED request

ConsiderCutting(loss) ==
  LET msg  == request.messages[left]
  IN  /\ left > 0
      /\ Select(Truncated(msg.runes, HistoryBudget, loss))
      /\ left' = left - 1
      /\ UNCHANGED request

(* The newest message is cut to the budget when it does not fit; an older  *)
(* one that does not fit is passed over.                                   *)
Consider(loss) ==
  LET msg  == request.messages[left]
      cost == EstimateMessageTokens(msg)
  IN  /\ left > 0
      /\ left' = left - 1
      /\ CASE selected = <<>> /\ cost > HistoryBudget ->
                Select(Truncated(msg.runes, HistoryBudget, loss))
           [] selected # <<>> /\ used + cost > HistoryBudget ->
                UNCHANGED <<selected, used>>
           [] OTHER -> Select(msg.runes)
      /\ UNCHANGED request

-----------------------------------------------------------------------------
(* The worker                                                              *)

(* modelContextSize: the environment of the worker may override it.        *)
WorkerContext ==
  IF request.override > 0 THEN request.override
  ELSE IF request.context > 0 /\ request.context < 4096 THEN request.context ELSE 4096

(* The -n argument of the runtime.                                         *)
WorkerOutput ==
  IF EffectiveMaxTokens <= 0 \/ EffectiveMaxTokens > 2048
    THEN request.preset ELSE EffectiveMaxTokens

-----------------------------------------------------------------------------
PromptRequests ==
  [context : Contexts, override : Overrides, maxTokens : MaxTokens,
   preset : Presets, system : SystemTexts, memory : MemoryTexts, messages : Histories]

PromptInit ==
  /\ request \in PromptRequests
  /\ left = Len(request.messages)
  /\ selected = <<>>
  /\ used = 0

PromptNext == \E loss \in TrimLoss : Consider(loss)

PromptSpec == PromptInit /\ [][PromptNext]_promptVars

-----------------------------------------------------------------------------
(* Properties                                                              *)

(* Unless the budget had to be raised to its minimum, what the manager     *)
(* sends, the output the worker allows and the estimate of the system      *)
(* prompt fit into the context the worker runs the model with, and at      *)
(* least 121 tokens are left for the chat template: the cut of a newest    *)
(* message that is too long counts only its text, not its role.            *)
PromptFits ==
  /\ PlainBudget >= MinPromptHistoryBudgetTokens
  /\ request.override = 0
  => EstimateTextTokens(EffectiveSystemPrompt) + used + WorkerOutput + 121
       <= WorkerContext

(* The newest message is always sent, the others keep their order, and a   *)
(* message is left out only when it would exceed the budget even now.      *)
PromptIsMaximal ==
  LET n == Len(request.messages) IN
  left = 0 /\ n > 0 =>
    /\ selected # <<>> /\ selected[Len(selected)].at = n
    /\ \A i \in 1..Len(selected) - 1 : selected[i].at < selected[i + 1].at
    /\ \A k \in 1..n :
         \/ \E i \in 1..Len(selected) : selected[i].at = k
         \/ used + EstimateMessageTokens(request.messages[k]) > HistoryBudget
=============================================================================
