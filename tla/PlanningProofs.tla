--------------------------- MODULE PlanningProofs ---------------------------
(***************************************************************************)
(* For every fleet, every model and every request: the stages of a plan    *)
(* are a whole chain and shares fit their workers (Planning), and a prompt *)
(* fits the context of the worker and is as much of the history as does    *)
(* (PromptBudget).                                                         *)
(*                                                                         *)
(* Sums over the selected workers are tables that grow with the selection, *)
(* so no induction is needed: the step that takes a worker extends them.   *)
(***************************************************************************)
EXTENDS Planning, PromptBudget, FiniteSetTheorems, TLAPS

-----------------------------------------------------------------------------
(* The prompt                                                              *)

Message == [role : {"user", "assistant", "system"}, runes : Nat \ {0}]

(* The inductive invariant: the estimate never exceeds the history budget  *)
(* by more than what a role and the framing of a message cost.             *)
PromptInv ==
  /\ request \in [context : Int, override : Nat, maxTokens : Int, preset : Nat \ {0},
                  system : Nat, memory : Nat, messages : Seq(Message)]
  /\ request.preset <= 2048
  /\ left \in 0..Len(request.messages)
  /\ used \in Nat
  /\ used <= HistoryBudget + 7
  /\ selected = <<>> => used = 0

(* max_tokens is positive once the preset stands in for it.                *)
LEMMA MaxTokensType ==
  ASSUME request.maxTokens \in Int, request.preset \in Nat \ {0}
  PROVE  EffectiveMaxTokens \in Nat \ {0}
<1>1. CASE request.maxTokens <= 0
  BY <1>1 DEF EffectiveMaxTokens
<1>2. CASE ~(request.maxTokens <= 0)
  <2>1. EffectiveMaxTokens = request.maxTokens
    BY <1>2 DEF EffectiveMaxTokens
  <2>2. request.maxTokens \in Nat \ {0}
    BY <1>2
  <2>. QED
    BY <2>1, <2>2
<1>. QED
  BY <1>1, <1>2

(* The numbers derived from a request are natural numbers.                 *)
LEMMA RequestNumbers ==
  ASSUME PromptInv
  PROVE  /\ EffectiveSystemPrompt \in Nat
         /\ EffectiveMaxTokens \in Nat \ {0}
         /\ HistoryBudget \in Nat
         /\ HistoryBudget >= 256
<1>1. EffectiveSystemPrompt \in Nat
  <2>1. request.system \in Nat /\ request.memory \in Nat
    BY DEF PromptInv
  <2>. QED
    BY <2>1 DEF EffectiveSystemPrompt
<1>2. EffectiveMaxTokens \in Nat \ {0}
  <2>1. request.maxTokens \in Int /\ request.preset \in Nat \ {0}
    BY DEF PromptInv
  <2>. QED
    BY <2>1, MaxTokensType
<1>3. ContextTokens \in Int
  BY DEF PromptInv, ContextTokens, DefaultPromptContextTokens
<1>4. OutputReserve \in Int
  BY <1>2 DEF OutputReserve
<1>5. EstimateTextTokens(EffectiveSystemPrompt) \in Int
  BY <1>1 DEF EstimateTextTokens
<1>6. PlainBudget \in Int
  BY <1>3, <1>4, <1>5 DEF PlainBudget, PromptContextOverheadTokens
<1>7. HistoryBudget \in Nat /\ HistoryBudget >= 256
  BY <1>6 DEF HistoryBudget, MinPromptHistoryBudgetTokens
<1>. QED
  BY <1>1, <1>2, <1>7

(* A role costs at most three tokens, a text of 4 * b runes at most b.     *)
LEMMA RoleCost ==
  ASSUME NEW role \in {"user", "assistant", "system"}
  PROVE  RoleTokens(role) \in 1..3
BY DEF RoleTokens, EstimateTextTokens

(* A text of at most four runes per token costs no more than its budget.   *)
LEMMA TextCost ==
  ASSUME NEW runes \in Nat, NEW b \in Nat, runes <= b * 4
  PROVE  EstimateTextTokens(runes) \in Nat /\ EstimateTextTokens(runes) <= b
BY DEF EstimateTextTokens

(* A text cut for a budget has no more runes than the budget allows.       *)
LEMMA TruncatedCost ==
  ASSUME NEW runes \in Nat, NEW b \in Nat \ {0}, NEW loss \in Nat
  PROVE  Truncated(runes, b, loss) \in Nat /\ Truncated(runes, b, loss) <= b * 4
BY DEF Truncated

(* One turn of the loop keeps the invariant.                               *)
LEMMA ConsiderKeepsInv ==
  ASSUME PromptInv, NEW loss \in Nat, Consider(loss)
  PROVE  PromptInv'
<1>. DEFINE msg  == request.messages[left]
            cost == EstimateMessageTokens(msg)
            b    == HistoryBudget
<1>1. msg \in Message /\ left - 1 \in 0..Len(request.messages)
  BY SMTT(30) DEF PromptInv, Consider
<1>2. msg.role \in {"user", "assistant", "system"} /\ msg.runes \in Nat \ {0}
  BY <1>1 DEF Message
<1>3. b \in Nat \ {0} /\ used \in Nat
  BY RequestNumbers DEF PromptInv
<1>4. RoleTokens(msg.role) \in 1..3
  BY <1>2, RoleCost
<1>5. EstimateTextTokens(msg.runes) \in Nat
  BY <1>2 DEF EstimateTextTokens
<1>6. request' = request /\ left' = left - 1 /\ HistoryBudget' = b
  BY DEF Consider, HistoryBudget, PlainBudget, ContextTokens, OutputReserve,
         EffectiveMaxTokens, EffectiveSystemPrompt
<1>7. \A runes : Select(runes) => selected' # <<>>
  BY DEF Select
<1>8. CASE selected = <<>> /\ cost > b
  <2>. DEFINE cut == Truncated(msg.runes, b, loss)
  <2>1. Select(cut)
    BY <1>8 DEF Consider
  <2>2. cut \in Nat /\ cut <= b * 4
    BY <1>2, <1>3, TruncatedCost
  <2>3. EstimateTextTokens(cut) \in Nat /\ EstimateTextTokens(cut) <= b
    BY <2>2, <1>3, TextCost
  <2>4. used = 0
    BY <1>8 DEF PromptInv
  <2>5. used' = 4 + RoleTokens(msg.role) + EstimateTextTokens(cut)
    BY <2>1, <2>4, <1>4, <2>3 DEF Select
  <2>6. used' \in Nat /\ used' <= b + 7
    BY <2>5, <1>4, <2>3, <1>3
  <2>. QED
    BY <1>1, <1>6, <1>7, <2>1, <2>6 DEF PromptInv
<1>9. CASE selected # <<>> /\ used + cost > b
  <2>1. UNCHANGED <<selected, used>>
    BY <1>9 DEF Consider
  <2>. QED
    BY <1>1, <1>6, <2>1 DEF PromptInv
<1>10. CASE ~(selected = <<>> /\ cost > b) /\ ~(selected # <<>> /\ used + cost > b)
  <2>1. Select(msg.runes)
    BY <1>10 DEF Consider
  <2>2. cost \in Nat /\ used' = used + cost
    <3>1. cost = 4 + RoleTokens(msg.role) + EstimateTextTokens(msg.runes)
      BY DEF EstimateMessageTokens
    <3>2. used' = used + 4 + RoleTokens(msg.role) + EstimateTextTokens(msg.runes)
      BY <2>1 DEF Select
    <3>. HIDE DEF cost, msg
    <3>. QED
      BY <3>1, <3>2, <1>3, <1>4, <1>5
  <2>3. selected = <<>> => used = 0
    BY DEF PromptInv
  <2>4. used' \in Nat /\ used' <= b
    BY <1>10, <2>2, <2>3, <1>3
  <2>5. used' <= b + 7
    BY <2>4, <1>3
  <2>. QED
    BY <1>1, <1>6, <1>7, <2>1, <2>4, <2>5 DEF PromptInv
<1>. QED
  BY <1>8, <1>9, <1>10

(* The manager's reserve covers what the worker may generate, and the two  *)
(* agree on the context.                                                   *)
LEMMA InvImpliesFits ==
  ASSUME PromptInv
  PROVE  PromptFits
<1>. SUFFICES ASSUME PlainBudget >= 256, request.override = 0
              PROVE  EstimateTextTokens(EffectiveSystemPrompt) + used + WorkerOutput + 121
                       <= WorkerContext
  BY DEF PromptFits, MinPromptHistoryBudgetTokens
<1>1. EffectiveMaxTokens \in Nat \ {0} /\ EffectiveSystemPrompt \in Nat
  BY RequestNumbers
<1>2. EstimateTextTokens(EffectiveSystemPrompt) \in Nat
  BY <1>1 DEF EstimateTextTokens
<1>3. /\ request.context \in Int /\ request.preset \in Nat /\ request.preset <= 2048 /\ used \in Nat
      /\ used <= HistoryBudget + 7
  BY DEF PromptInv
<1>4. OutputReserve \in Nat /\ WorkerOutput \in Nat /\ WorkerOutput <= OutputReserve
  <2>2. CASE EffectiveMaxTokens > 2048
    <3>1. OutputReserve = 2048 /\ WorkerOutput = request.preset
      BY <2>2 DEF OutputReserve, WorkerOutput
    <3>. QED
      BY <1>3, <3>1
  <2>3. CASE ~(EffectiveMaxTokens > 2048)
    <3>1. ~(EffectiveMaxTokens <= 0)
      BY <1>1
    <3>2. OutputReserve = EffectiveMaxTokens /\ WorkerOutput = EffectiveMaxTokens
      BY <2>3, <3>1 DEF OutputReserve, WorkerOutput
    <3>. QED
      BY <3>2, <1>1
  <2>. QED
    BY <2>2, <2>3
<1>5. ContextTokens \in Int /\ WorkerContext = ContextTokens
  BY <1>3 DEF ContextTokens, WorkerContext, DefaultPromptContextTokens
<1>6. PlainBudget = ContextTokens - OutputReserve - 128
                      - EstimateTextTokens(EffectiveSystemPrompt)
  BY DEF PlainBudget, PromptContextOverheadTokens
<1>7. HistoryBudget = PlainBudget
  BY <1>2, <1>4, <1>5, <1>6 DEF HistoryBudget, MinPromptHistoryBudgetTokens
<1>. HIDE DEF PlainBudget, HistoryBudget, OutputReserve, WorkerOutput, ContextTokens
<1>. QED
  BY <1>2, <1>3, <1>4, <1>5, <1>6, <1>7

(* The invariant holds in every state of every request.                    *)
LEMMA PromptInvAlways == PromptSpec => []PromptInv
<1>1. PromptInit => PromptInv
  <2>. SUFFICES ASSUME PromptInit PROVE PromptInv
    OBVIOUS
  <2>1. request \in [context : Int, override : Nat, maxTokens : Int, preset : Nat \ {0},
                     system : Nat, memory : Nat, messages : Seq(Message)]
    <3>1. request \in [context : Contexts, override : Overrides, maxTokens : MaxTokens,
                       preset : Presets, system : SystemTexts, memory : MemoryTexts,
                       messages : Histories]
      BY DEF PromptInit, PromptRequests
    <3>2. /\ Contexts \subseteq Int /\ MaxTokens \subseteq Int /\ Presets \subseteq Nat \ {0}
          /\ Overrides \subseteq Nat /\ SystemTexts \subseteq Nat /\ MemoryTexts \subseteq Nat
          /\ Histories \subseteq Seq(Message)
      BY PromptAssumption DEF Message
    <3>. QED
      BY <3>1, <3>2, Zenon
  <2>2. left \in 0..Len(request.messages) /\ used = 0 /\ request.preset <= 2048
    <3>1. request.preset \in Presets
      BY DEF PromptInit, PromptRequests
    <3>. QED
      BY <2>1, <3>1, PromptAssumption DEF PromptInit
  <2>3. HistoryBudget \in Nat
    <3>1. EffectiveSystemPrompt \in Nat
      BY <2>1 DEF EffectiveSystemPrompt
    <3>2. EffectiveMaxTokens \in Int
      BY <2>1, MaxTokensType
    <3>3. ContextTokens \in Int
      BY <2>1 DEF ContextTokens, DefaultPromptContextTokens
    <3>4. OutputReserve \in Int
      BY <3>2 DEF OutputReserve
    <3>5. EstimateTextTokens(EffectiveSystemPrompt) \in Int
      BY <3>1 DEF EstimateTextTokens
    <3>6. PlainBudget \in Int
      BY <3>3, <3>4, <3>5 DEF PlainBudget, PromptContextOverheadTokens
    <3>. QED
      BY <3>6 DEF HistoryBudget, MinPromptHistoryBudgetTokens
  <2>. QED
    BY <2>1, <2>2, <2>3 DEF PromptInv
<1>2. PromptInv /\ [PromptNext]_promptVars => PromptInv'
  <2>. SUFFICES ASSUME PromptInv, [PromptNext]_promptVars PROVE PromptInv'
    OBVIOUS
  <2>1. CASE PromptNext
    BY <2>1, ConsiderKeepsInv, PromptAssumption DEF PromptNext
  <2>2. CASE UNCHANGED promptVars
    BY <2>2 DEF promptVars, PromptInv, HistoryBudget, PlainBudget, ContextTokens,
                OutputReserve, EffectiveMaxTokens, EffectiveSystemPrompt
  <2>. QED
    BY <2>1, <2>2
<1>. QED
  BY <1>1, <1>2, PTL DEF PromptSpec

(* A prompt of the manager, the answer and 121 tokens of chat template fit *)
(* the context of the worker, for every conversation, system prompt and    *)
(* max_tokens that leave the minimum budget (promptContextPreview,         *)
(* executeModelGenerate).                                                  *)
THEOREM PromptsFit == PromptSpec => []PromptFits
<1>1. PromptInv => PromptFits
  BY InvImpliesFits
<1>. QED
  BY <1>1, PromptInvAlways, PTL

Chosen == [at : Nat, runes : Nat]

(* Of the messages looked at so far: the newest one is chosen, the chosen  *)
(* ones are in order, and one that is not chosen does not fit, now that    *)
(* more is used than when it was passed over.                              *)
MaximalInv ==
  LET n == Len(request.messages) IN
  /\ selected \in Seq(Chosen)
  /\ selected = <<>> => left = n
  /\ selected # <<>> => selected[Len(selected)].at = n
  /\ \A i \in 1..Len(selected) : selected[i].at > left
  /\ \A i \in 1..Len(selected) - 1 : selected[i].at < selected[i + 1].at
  /\ \A k \in left + 1..n :
       \/ \E i \in 1..Len(selected) : selected[i].at = k
       \/ used + EstimateMessageTokens(request.messages[k]) > HistoryBudget

(* A message of a history costs a natural number of tokens.                *)
LEMMA MessageCost ==
  ASSUME NEW msg \in Message
  PROVE  EstimateMessageTokens(msg) \in Nat
<1>1. msg.role \in {"user", "assistant", "system"} /\ msg.runes \in Nat
  BY DEF Message
<1>2. RoleTokens(msg.role) \in 1..3
  BY <1>1, RoleCost
<1>3. EstimateTextTokens(msg.runes) \in Nat
  BY <1>1 DEF EstimateTextTokens
<1>. QED
  BY <1>2, <1>3 DEF EstimateMessageTokens

(* The chosen messages have their places in the history.                   *)
LEMMA ChosenPlaces ==
  ASSUME NEW s \in Seq(Chosen)
  PROVE  Len(s) \in Nat /\ \A i \in 1..Len(s) : s[i].at \in Nat
<1>1. ASSUME NEW i \in 1..Len(s) PROVE s[i].at \in Nat
  <2>1. s[i] \in Chosen
    OBVIOUS
  <2>. QED
    BY <2>1 DEF Chosen
<1>. QED
  BY <1>1

(* What was passed over for its cost stays too expensive as more is used.  *)
LEMMA ChoosingKeepsMaximal ==
  ASSUME PromptInv, MaximalInv, left > 0, NEW runes \in Nat, Select(runes),
         left' = left - 1, request' = request
  PROVE  MaximalInv'
<1>. DEFINE n   == Len(request.messages)
            new == [at |-> left, runes |-> runes]
            cost(k) == EstimateMessageTokens(request.messages[k])
<1>1. /\ left \in Nat /\ n \in Nat /\ left <= n /\ used \in Nat
      /\ request.messages \in Seq(Message)
  BY DEF PromptInv
<1>2. request.messages[left] \in Message
  BY <1>1
<1>3. new \in Chosen /\ new.at = left
  BY <1>1 DEF Chosen
<1>4. selected \in Seq(Chosen)
  BY DEF MaximalInv
<1>5. selected' = <<new>> \o selected
  BY DEF Select
<1>. HIDE DEF new
<1>6. /\ selected' \in Seq(Chosen)
      /\ Len(selected') = Len(selected) + 1
      /\ selected'[1] = new
      /\ \A i \in 1..Len(selected) : selected'[i + 1] = selected[i]
  BY <1>3, <1>4, <1>5
<1>7. used' \in Nat /\ used' >= used
  <2>1. request.messages[left].role \in {"user", "assistant", "system"}
    BY <1>2 DEF Message
  <2>2. RoleTokens(request.messages[left].role) \in 1..3
    BY <2>1, RoleCost
  <2>3. EstimateTextTokens(runes) \in Nat
    BY DEF EstimateTextTokens
  <2>4. used' = used + 4 + RoleTokens(request.messages[left].role) + EstimateTextTokens(runes)
    BY DEF Select
  <2>. QED
    BY <1>1, <2>2, <2>3, <2>4
<1>8. HistoryBudget' = HistoryBudget /\ HistoryBudget \in Nat
  BY RequestNumbers DEF HistoryBudget, PlainBudget, ContextTokens, OutputReserve,
     EffectiveMaxTokens, EffectiveSystemPrompt
<1>9. Len(selected) \in Nat /\ \A i \in 1..Len(selected) : selected[i].at \in Nat
  BY <1>4, ChosenPlaces
<1>10. selected' # <<>> /\ selected'[Len(selected')].at = n
  <2>1. CASE selected = <<>>
    <3>1. Len(selected) = 0 /\ left = n
      BY <2>1 DEF MaximalInv
    <3>2. Len(selected') = 1
      BY <3>1, <1>6
    <3>3. selected'[Len(selected')] = new
      BY <3>2, <1>6
    <3>4. selected' # <<>>
      BY <3>2
    <3>. QED
      BY <3>1, <3>3, <3>4, <1>3
  <2>2. CASE selected # <<>>
    BY <2>2, <1>4, <1>6, <1>9 DEF MaximalInv
  <2>. QED
    BY <2>1, <2>2, <1>6, <1>9
<1>11. ASSUME NEW i \in 1..Len(selected') PROVE selected'[i].at > left'
  <2>1. CASE i = 1
    BY <2>1, <1>1, <1>3, <1>6
  <2>2. CASE i # 1
    <3>1. i - 1 \in 1..Len(selected) /\ (i - 1) + 1 = i
      BY <2>2, <1>6, <1>9
    <3>2. selected'[i] = selected[i - 1]
      BY <3>1, <1>6
    <3>3. selected[i - 1].at > left
      BY <3>1 DEF MaximalInv
    <3>. QED
      BY <3>1, <3>2, <3>3, <1>1, <1>9
  <2>. QED
    BY <2>1, <2>2
<1>12. ASSUME NEW i \in 1..Len(selected') - 1 PROVE selected'[i].at < selected'[i + 1].at
  <2>0. i \in 1..Len(selected) /\ selected'[i + 1] = selected[i]
    BY <1>6, <1>9
  <2>1. CASE i = 1
    BY <2>0, <2>1, <1>3, <1>6 DEF MaximalInv
  <2>2. CASE i # 1
    <3>1. i - 1 \in 1..Len(selected) - 1 /\ i - 1 \in 1..Len(selected) /\ (i - 1) + 1 = i
      BY <2>0, <2>2, <1>9
    <3>2. selected'[i] = selected[i - 1] /\ selected[i - 1].at < selected[(i - 1) + 1].at
      BY <3>1, <1>6 DEF MaximalInv
    <3>. QED
      BY <2>0, <3>1, <3>2
  <2>. QED
    BY <2>1, <2>2
<1>13. ASSUME NEW k \in left' + 1..n
       PROVE  \/ \E i \in 1..Len(selected') : selected'[i].at = k
              \/ used' + cost(k) > HistoryBudget
  <2>1. CASE k = left
    <3>1. 1 \in 1..Len(selected')
      BY <1>6, <1>9
    <3>. QED
      BY <2>1, <3>1, <1>3, <1>6
  <2>2. CASE k # left
    <3>1. k \in left + 1..n /\ k \in 1..n
      BY <2>2, <1>1
    <3>2. CASE \E i \in 1..Len(selected) : selected[i].at = k
      <4>1. PICK i \in 1..Len(selected) : selected[i].at = k
        BY <3>2
      <4>2. i + 1 \in 1..Len(selected')
        BY <1>6, <1>9
      <4>3. selected'[i + 1].at = k
        BY <4>1, <1>6
      <4>. QED
        BY <4>2, <4>3
    <3>3. CASE used + cost(k) > HistoryBudget
      <4>1. cost(k) \in Nat
        BY <3>1, <1>1, MessageCost
      <4>. HIDE DEF cost
      <4>. QED
        BY <4>1, <3>3, <1>1, <1>7, <1>8
    <3>. QED
      BY <3>1, <3>2, <3>3 DEF MaximalInv
  <2>. QED
    BY <2>1, <2>2
<1>. QED
  BY <1>6, <1>8, <1>10, <1>11, <1>12, <1>13 DEF MaximalInv

(* A turn of the loop chooses the message, or passes over one that does    *)
(* not fit.                                                                *)
LEMMA ConsiderKeepsMaximal ==
  ASSUME PromptInv, MaximalInv, NEW loss \in Nat, Consider(loss)
  PROVE  MaximalInv'
<1>. DEFINE n    == Len(request.messages)
            msg  == request.messages[left]
            cost == EstimateMessageTokens(msg)
<1>1. /\ left \in Nat /\ left > 0 /\ n \in Nat /\ left <= n
      /\ request.messages \in Seq(Message)
      /\ left' = left - 1 /\ request' = request
  BY DEF PromptInv, Consider
<1>2. msg \in Message
  BY <1>1
<1>3. msg.runes \in Nat
  BY <1>2 DEF Message
<1>4. HistoryBudget' = HistoryBudget /\ HistoryBudget \in Nat \ {0}
  BY <1>1, RequestNumbers DEF HistoryBudget, PlainBudget, ContextTokens, OutputReserve,
     EffectiveMaxTokens, EffectiveSystemPrompt
<1>5. CASE selected = <<>> /\ cost > HistoryBudget
  <2>1. Select(Truncated(msg.runes, HistoryBudget, loss))
    BY <1>5 DEF Consider
  <2>2. Truncated(msg.runes, HistoryBudget, loss) \in Nat
    BY <1>3, <1>4, TruncatedCost
  <2>. QED
    BY <2>1, <2>2, <1>1, ChoosingKeepsMaximal
<1>6. CASE selected # <<>> /\ used + cost > HistoryBudget
  <2>1. selected' = selected /\ used' = used
    BY <1>6 DEF Consider
  <2>2. \A i \in 1..Len(selected) : selected[i].at \in Nat
    BY ChosenPlaces DEF MaximalInv
  <2>3. \A i \in 1..Len(selected) : selected[i].at > left'
    BY <2>2, <1>1 DEF MaximalInv
  <2>4. ASSUME NEW k \in left' + 1..n
        PROVE  \/ \E i \in 1..Len(selected) : selected[i].at = k
               \/ used + EstimateMessageTokens(request.messages[k]) > HistoryBudget
    <3>1. CASE k = left
      BY <3>1, <1>6
    <3>2. CASE k # left
      <4>1. k \in left + 1..n
        BY <3>2, <1>1
      <4>. QED
        BY <4>1 DEF MaximalInv
    <3>. QED
      BY <3>1, <3>2
  <2>. QED
    BY <1>1, <1>4, <1>6, <2>1, <2>3, <2>4 DEF MaximalInv
<1>7. CASE ~(selected = <<>> /\ cost > HistoryBudget) /\ ~(selected # <<>> /\ used + cost > HistoryBudget)
  <2>1. Select(msg.runes)
    BY <1>7 DEF Consider
  <2>. QED
    BY <2>1, <1>1, <1>3, ChoosingKeepsMaximal
<1>. QED
  BY <1>5, <1>6, <1>7

(* For every history and budget the prompt is as much of the history as    *)
(* fits: the newest message is in it, and no message was left out that     *)
(* would fit beside those chosen (promptContextPreview).                   *)
THEOREM PromptsAreMaximal == PromptSpec => []PromptIsMaximal
<1>1. PromptInit => MaximalInv
  <2>. SUFFICES ASSUME PromptInit PROVE MaximalInv
    OBVIOUS
  <2>1. request.messages \in Seq(Message)
    <3>1. request.messages \in Histories
      BY DEF PromptInit, PromptRequests
    <3>. QED
      BY <3>1, PromptAssumption DEF Message
  <2>2. left = Len(request.messages) /\ selected = <<>> /\ Len(request.messages) \in Nat
    BY <2>1 DEF PromptInit
  <2>. QED
    BY <2>2 DEF MaximalInv
<1>2. PromptInv /\ MaximalInv /\ [PromptNext]_promptVars => MaximalInv'
  <2>. SUFFICES ASSUME PromptInv, MaximalInv, [PromptNext]_promptVars PROVE MaximalInv'
    OBVIOUS
  <2>1. CASE PromptNext
    BY <2>1, ConsiderKeepsMaximal, PromptAssumption DEF PromptNext
  <2>2. CASE UNCHANGED promptVars
    BY <2>2 DEF promptVars, MaximalInv, HistoryBudget, PlainBudget, ContextTokens,
                OutputReserve, EffectiveMaxTokens, EffectiveSystemPrompt
  <2>. QED
    BY <2>1, <2>2
<1>3. PromptInv /\ MaximalInv => PromptIsMaximal
  <2>. SUFFICES ASSUME PromptInv, MaximalInv PROVE PromptIsMaximal
    OBVIOUS
  <2>1. Len(request.messages) \in Nat /\ selected \in Seq(Chosen)
    BY DEF PromptInv, MaximalInv
  <2>. QED
    BY <2>1 DEF MaximalInv, PromptIsMaximal
<1>. QED
  BY <1>1, <1>2, <1>3, PromptInvAlways, PTL DEF PromptSpec

-----------------------------------------------------------------------------
(* The stages                                                              *)

StageRecord == [worker : Worker, start : Int, end : Int, memory : Int, disk : Int]

PlanTypeOK ==
  /\ fleet \in [Worker -> WorkerSnapshot]
  /\ model \in [memory : Nat, disk : Nat, layers : Nat \ {0}]
  /\ candidates \in Seq(Worker)
  /\ taken \in 0..Len(candidates)
  /\ memory \in Int
  /\ pc \in {"start", "select", "split", "planned", "place", "shard", "sharded",
             "blocked", "single"}

(* While workers are selected and layers are given out: every candidate    *)
(* has memory above the overhead, so the total weight is not zero.         *)
WeightsArePositive ==
  pc \in {"select", "split"} =>
    /\ \A i \in 1..Len(candidates) : Weight(candidates[i]) > 0
    /\ memory >= taken

Chain ==
  /\ parts \in Seq(StageRecord)
  /\ \A i \in 1..Len(parts) : parts[i].start <= parts[i].end
  /\ \A i \in 1..Len(parts) - 1 : parts[i + 1].start = parts[i].end + 1
  /\ parts # <<>> => parts[1].start = 0

(* The inductive invariant: the stages so far are a chain and one layer is *)
(* left for every worker that has none yet.                                *)
ChainInv ==
  /\ PlanTypeOK
  /\ WeightsArePositive
  /\ pc \in {"start", "select"} => parts = <<>>
  /\ pc = "start" => taken = 0 /\ memory = 0
  /\ pc \in {"select", "place"} => taken < Len(candidates)
  /\ pc = "split" => taken >= 2 /\ parts \in Seq(StageRecord) /\ Len(parts) < taken
  /\ pc = "split" /\ taken <= model.layers =>
       Chain /\ NextLayer + (taken - Len(parts)) <= model.layers
  /\ pc = "planned" /\ taken <= model.layers =>
       /\ taken >= 2 /\ Chain
       /\ Len(parts) = taken /\ parts[taken].end = model.layers - 1

(* The sort returns a sequence of the workers it is given.                 *)
LEMMA ByMemoryType ==
  ASSUME NEW W, W \subseteq Worker, NEW s \in ByMemory(W)
  PROVE  s \in Seq(W) /\ (W # {} => Len(s) > 0)
<1>1. IsFiniteSet(W)
  BY PlanningAssumption, FS_Subset
<1>2. Cardinality(W) \in Nat /\ (W # {} => Cardinality(W) > 0)
  BY <1>1, FS_CardinalityType, FS_EmptySet
<1>3. s \in [1..Cardinality(W) -> W]
  BY DEF ByMemory
<1>. QED
  BY <1>2, <1>3

(* A new plan starts with an empty chain, which is whole.                  *)
LEMMA PlanRequestKeepsChain ==
  ASSUME ChainInv, PlanRequest
  PROVE  ChainInv'
<1>. DEFINE W == DistributedCandidates
<1>1. W \subseteq Worker /\ candidates' \in ByMemory(W)
  BY DEF PlanRequest, DistributedCandidates
<1>2. candidates' \in Seq(W) /\ (W # {} => Len(candidates') > 0)
  BY <1>1, ByMemoryType
<1>3. /\ UNCHANGED <<fleet, model, taken, memory, disk, parts>>
      /\ taken = 0 /\ memory = 0 /\ parts = <<>>
      /\ pc' = IF W = {} THEN "blocked" ELSE "select"
  BY DEF PlanRequest, ChainInv
<1>4. \A w \in W : fleet[w].memory > StageOverhead /\ fleet[w].memory \in Nat
  BY <1>1 DEF DistributedCandidates, ChainInv, PlanTypeOK, WorkerSnapshot
<1>5. \A i \in 1..Len(candidates') : candidates'[i] \in W
  BY <1>2
<1>6. \A i \in 1..Len(candidates') : Weight(candidates[i])' > 0
  BY <1>3, <1>4, <1>5, PlanningAssumption DEF Weight
<1>. HIDE DEF W
<1>7. candidates' \in Seq(Worker)
  BY <1>1, <1>2
<1>8. PlanTypeOK'
  BY <1>3, <1>7 DEF ChainInv, PlanTypeOK
<1>9. WeightsArePositive'
  BY <1>3, <1>6 DEF WeightsArePositive
<1>. QED
  BY <1>2, <1>3, <1>8, <1>9 DEF ChainInv

(* Taking one more worker adds its weight, which is at least one.          *)
LEMMA SelectKeepsChain ==
  ASSUME ChainInv, SelectWorker
  PROVE  ChainInv'
<1>. DEFINE w == candidates[taken + 1]
<1>1. /\ pc = "select" /\ parts = <<>> /\ taken \in Nat /\ taken < Len(candidates)
      /\ memory \in Int /\ memory >= taken /\ candidates \in Seq(Worker)
  BY DEF SelectWorker, ChainInv, PlanTypeOK, WeightsArePositive
<1>2. w \in Worker /\ Weight(w) > 0
  BY <1>1 DEF ChainInv, WeightsArePositive
<1>3. Weight(w) \in Int
  BY <1>2, PlanningAssumption DEF Weight, ChainInv, PlanTypeOK, WorkerSnapshot
<1>4. /\ UNCHANGED <<fleet, model, candidates, parts>>
      /\ taken' = taken + 1 /\ memory' = memory + Weight(w)
  BY DEF SelectWorker
<1>5. \/ pc' = "split" /\ taken' >= 2
      \/ pc' = "blocked"
      \/ pc' = "select" /\ taken' # Len(candidates)
  BY DEF SelectWorker
<1>6. PlanTypeOK'
  BY <1>1, <1>3, <1>4, <1>5 DEF ChainInv, PlanTypeOK
<1>7. WeightsArePositive'
  BY <1>1, <1>2, <1>3, <1>4 DEF ChainInv, WeightsArePositive, Weight
<1>8. Chain' /\ parts' \in Seq(StageRecord) /\ Len(parts') = 0 /\ NextLayer' = 0
  BY <1>1, <1>4 DEF Chain, NextLayer
<1>9. model'.layers \in Nat \ {0}
  BY <1>4 DEF ChainInv, PlanTypeOK
<1>. QED
  BY <1>1, <1>4, <1>5, <1>6, <1>7, <1>8, <1>9 DEF ChainInv

(* StageLayers gives at least one layer and keeps one for the others.      *)
LEMMA StageLayersBounds ==
  ASSUME ChainInv, pc = "split", NEW i \in Nat, i = Len(parts) + 1, NextLayer \in Int,
         taken <= model.layers => NextLayer + (taken - Len(parts)) <= model.layers
  PROVE  /\ StageLayers(i) \in Int
         /\ i = taken => StageLayers(i) = model.layers - NextLayer
         /\ taken <= model.layers =>
              /\ StageLayers(i) >= 1
              /\ i < taken => StageLayers(i) <= model.layers - NextLayer - (taken - i)
<1>1. /\ taken \in Nat /\ taken >= 2 /\ taken <= Len(candidates) /\ memory \in Int
      /\ memory >= taken /\ model.layers \in Nat \ {0} /\ candidates \in Seq(Worker)
      /\ Len(parts) \in Nat /\ Len(parts) < taken
  BY DEF ChainInv, PlanTypeOK, WeightsArePositive
<1>2. candidates[i] \in Worker
  BY <1>1
<1>3. Weight(candidates[i]) \in Int
  <2>1. fleet[candidates[i]] \in WorkerSnapshot
    BY <1>2 DEF ChainInv, PlanTypeOK
  <2>2. fleet[candidates[i]].memory \in Nat
    BY <2>1 DEF WorkerSnapshot
  <2>3. StageOverhead \in Nat
    BY PlanningAssumption
  <2>. QED
    BY <2>2, <2>3 DEF Weight
<1>4. Rounded(Weight(candidates[i])) \in Int
  <2>1. 2 * model.layers * Weight(candidates[i]) + memory \in Int
    BY <1>1, <1>3
  <2>2. 2 * memory \in Int /\ 2 * memory > 0
    BY <1>1
  <2>. QED
    BY <2>1, <2>2 DEF Rounded
<1>. DEFINE share      == Rounded(Weight(candidates[i]))
            atLeastOne == IF share < 1 THEN 1 ELSE share
            maxAllowed == model.layers - NextLayer - (taken - i)
<1>5. atLeastOne \in Int /\ atLeastOne >= 1
  BY <1>4
<1>6. maxAllowed \in Int /\ (taken <= model.layers => maxAllowed >= 1)
  BY <1>1, SMTT(30)
<1>7. StageLayers(i) = IF i = taken THEN model.layers - NextLayer
                       ELSE IF atLeastOne > maxAllowed THEN maxAllowed ELSE atLeastOne
  BY DEF StageLayers
<1>. HIDE DEF share, atLeastOne
<1>8. CASE i = taken
  BY <1>1, <1>7, <1>8
<1>9. CASE i # taken
  BY <1>1, <1>5, <1>6, <1>7, <1>9
<1>. QED
  BY <1>8, <1>9

(* The bytes of a stage are integers.                                      *)
LEMMA ProportionalType ==
  ASSUME NEW total \in Nat, NEW part \in Int, NEW whole \in Nat \ {0}
  PROVE  ProportionalBytes(total, part, whole) \in Int
<1>1. total * part + whole - 1 \in Int
  OBVIOUS
<1>. QED
  BY <1>1 DEF ProportionalBytes

(* One turn of the loop over the workers extends the chain by a stage of   *)
(* at least one layer and leaves one for every worker that has none yet.   *)
LEMMA BuildStageKeepsChain ==
  ASSUME ChainInv, BuildStage
  PROVE  ChainInv'
<1>. DEFINE i      == Len(parts) + 1
            layers == StageLayers(i)
            stage  == [worker |-> candidates[i], start |-> NextLayer,
                       end |-> NextLayer + layers - 1,
                       memory |-> ProportionalBytes(model.memory, layers, model.layers)
                                    + StageOverhead,
                       disk |-> ProportionalBytes(model.disk, layers, model.layers)]
<1>1. /\ pc = "split" /\ parts \in Seq(StageRecord) /\ Len(parts) < taken /\ taken >= 2
      /\ taken \in Nat /\ taken <= Len(candidates) /\ candidates \in Seq(Worker)
      /\ model.layers \in Nat \ {0} /\ model.memory \in Nat /\ model.disk \in Nat
  BY DEF BuildStage, ChainInv, PlanTypeOK
<1>2. /\ parts' = Append(parts, stage)
      /\ pc' = IF i = taken THEN "planned" ELSE "split"
      /\ UNCHANGED <<fleet, model, candidates, taken, memory, disk>>
  BY DEF BuildStage
<1>3. Len(parts) \in Nat /\ (parts # <<>> => Len(parts) \in 1..Len(parts))
  BY <1>1
<1>4. NextLayer \in Int
  <2>1. CASE parts = <<>>
    BY <2>1 DEF NextLayer
  <2>2. CASE parts # <<>>
    <3>1. parts[Len(parts)] \in StageRecord
      BY <1>1, <1>3, <2>2
    <3>. QED
      BY <2>2, <3>1 DEF NextLayer, StageRecord
  <2>. QED
    BY <2>1, <2>2
<1>5. i \in Nat /\ i \in 1..taken
  BY <1>1, <1>3
<1>6. taken <= model.layers => Chain /\ NextLayer + (taken - Len(parts)) <= model.layers
  BY <1>1 DEF ChainInv
<1>7. /\ layers \in Int
      /\ i = taken => layers = model.layers - NextLayer
      /\ taken <= model.layers =>
           /\ layers >= 1
           /\ i < taken => layers <= model.layers - NextLayer - (taken - i)
  BY <1>1, <1>4, <1>5, <1>6, StageLayersBounds
<1>. HIDE DEF layers
<1>8. /\ ProportionalBytes(model.memory, layers, model.layers) \in Int
      /\ ProportionalBytes(model.disk, layers, model.layers) \in Int
  BY <1>1, <1>7, ProportionalType
<1>9. stage \in StageRecord
  <2>1. candidates[i] \in Worker
    BY <1>1, <1>5
  <2>2. NextLayer + layers - 1 \in Int
    BY <1>4, <1>7
  <2>3. ProportionalBytes(model.memory, layers, model.layers) + StageOverhead \in Int
    BY <1>8, PlanningAssumption
  <2>. QED
    BY <2>1, <2>2, <2>3, <1>4, <1>8 DEF StageRecord
<1>10. stage.start = NextLayer /\ stage.end = NextLayer + layers - 1
  OBVIOUS
<1>. HIDE DEF stage
<1>11. /\ parts' \in Seq(StageRecord) /\ Len(parts') = i
       /\ parts'[i] = stage
       /\ \A k \in 1..Len(parts) : parts'[k] = parts[k]
       /\ parts' # <<>>
  BY <1>1, <1>2, <1>9
<1>12. PlanTypeOK'
  BY <1>2 DEF ChainInv, PlanTypeOK
<1>13. WeightsArePositive'
  BY <1>1, <1>2 DEF ChainInv, WeightsArePositive, Weight
<1>14. NextLayer' = NextLayer + layers
  BY <1>4, <1>7, <1>10, <1>11 DEF NextLayer
<1>15. ASSUME taken <= model.layers
       PROVE  Chain'
  <2>1. Chain /\ layers >= 1
    BY <1>6, <1>7, <1>15
  <2>2. ASSUME NEW k \in 1..i PROVE parts'[k].start <= parts'[k].end
    <3>1. CASE k = i
      BY <3>1, <2>1, <1>4, <1>7, <1>10, <1>11
    <3>2. CASE k # i
      <4>1. k \in 1..Len(parts)
        BY <3>2, <1>3
      <4>. QED
        BY <4>1, <2>1, <1>11 DEF Chain
    <3>. QED
      BY <3>1, <3>2
  <2>3. ASSUME NEW k \in 1..i - 1 PROVE parts'[k + 1].start = parts'[k].end + 1
    <3>1. CASE k + 1 = i
      <4>1. k = Len(parts) /\ k \in 1..Len(parts) /\ parts # <<>>
        BY <3>1, <1>3
      <4>2. NextLayer = parts[k].end + 1
        BY <4>1 DEF NextLayer
      <4>. QED
        BY <3>1, <4>1, <4>2, <1>10, <1>11
    <3>2. CASE k + 1 # i
      <4>1. k \in 1..Len(parts) - 1 /\ k + 1 \in 1..Len(parts) /\ k \in 1..Len(parts)
        BY <3>2, <1>3
      <4>. QED
        BY <4>1, <2>1, <1>11 DEF Chain
    <3>. QED
      BY <3>1, <3>2
  <2>4. parts'[1].start = 0
    <3>1. CASE parts = <<>>
      BY <3>1, <1>1, <1>10, <1>11 DEF NextLayer
    <3>2. CASE parts # <<>>
      <4>1. 1 \in 1..Len(parts)
        BY <3>2, <1>3
      <4>. QED
        BY <4>1, <3>2, <2>1, <1>11 DEF Chain
    <3>. QED
      BY <3>1, <3>2
  <2>. QED
    BY <1>11, <2>2, <2>3, <2>4 DEF Chain
<1>16. CASE i = taken
  <2>1. pc' = "planned" /\ parts'[taken].end = model.layers - 1
    BY <1>16, <1>1, <1>2, <1>4, <1>7, <1>10, <1>11, SMTT(30)
  <2>. QED
    BY <1>16, <2>1, <1>1, <1>2, <1>11, <1>12, <1>13, <1>15 DEF ChainInv
<1>17. CASE i # taken
  <2>1. pc' = "split" /\ i < taken
    <3>1. pc' = "split"
      BY <1>17, <1>2
    <3>2. i < taken
      BY <1>17, <1>5, <1>1
    <3>. QED
      BY <3>1, <3>2
  <2>2. taken <= model.layers => NextLayer' + (taken - i) <= model.layers
    BY <2>1, <1>1, <1>4, <1>5, <1>7, <1>14
  <2>. QED
    BY <2>1, <2>2, <1>1, <1>2, <1>11, <1>12, <1>13, <1>15 DEF ChainInv
<1>. QED
  BY <1>16, <1>17

(* The placement plan and the stuttering steps.                            *)
LEMMA PlacementKeepsChain ==
  ASSUME ChainInv, PlaceRequest \/ PlaceWorker \/ BuildShard
  PROVE  ChainInv'
<1>1. CASE PlaceRequest
  <2>. DEFINE W == PlacementCandidates
  <2>1. candidates' = candidates \/ candidates' \in ByMemory(W)
    BY <1>1 DEF PlaceRequest, ByMemoryAndStorage
  <2>2. W \subseteq Worker
    BY DEF PlacementCandidates
  <2>3. candidates' \in Seq(Worker)
    BY <2>1, <2>2, ByMemoryType DEF ChainInv, PlanTypeOK
  <2>4. /\ pc = "start" /\ pc' \in {"single", "blocked", "place"} /\ taken = 0
        /\ UNCHANGED <<fleet, model, taken, memory, disk, parts>>
    BY <1>1 DEF PlaceRequest, ChainInv
  <2>5. taken' \in 0..Len(candidates')
    BY <2>3, <2>4
  <2>6. pc' = "place" => taken' < Len(candidates')
    <3>1. pc' = "place" => W # {} /\ candidates' \in ByMemory(W)
      BY <1>1 DEF PlaceRequest, ByMemoryAndStorage
    <3>. QED
      BY <3>1, <2>2, <2>3, <2>4, ByMemoryType
  <2>. HIDE DEF W
  <2>. QED
    BY <2>3, <2>4, <2>5, <2>6 DEF ChainInv, PlanTypeOK, WeightsArePositive
<1>2. CASE PlaceWorker
  <2>1. pc = "place" /\ pc' \in {"shard", "blocked", "place"}
    BY <1>2 DEF PlaceWorker
  <2>2. /\ UNCHANGED <<fleet, model, candidates, parts>> /\ taken' = taken + 1
        /\ memory' = memory + fleet[candidates[taken + 1]].memory
    BY <1>2 DEF PlaceWorker
  <2>3. taken \in Nat /\ taken < Len(candidates) /\ Len(candidates) \in Nat
    BY <2>1 DEF ChainInv, PlanTypeOK
  <2>4. memory' \in Int
    <3>1. taken + 1 \in 1..Len(candidates)
      BY <2>3
    <3>2. fleet[candidates[taken + 1]] \in WorkerSnapshot
      BY <3>1 DEF ChainInv, PlanTypeOK
    <3>3. fleet[candidates[taken + 1]].memory \in Nat /\ memory \in Int
      BY <3>2 DEF WorkerSnapshot, ChainInv, PlanTypeOK
    <3>. QED
      BY <3>3, <2>2
  <2>5. pc' = "place" => taken' # Len(candidates)
    BY <1>2 DEF PlaceWorker
  <2>6. taken' \in 0..Len(candidates) /\ (pc' = "place" => taken' < Len(candidates))
    BY <2>2, <2>3, <2>5
  <2>. QED
    BY <2>1, <2>2, <2>4, <2>6 DEF ChainInv, PlanTypeOK, WeightsArePositive
<1>3. CASE BuildShard
  BY <1>3 DEF BuildShard, ChainInv, PlanTypeOK, WeightsArePositive
<1>. QED
  BY <1>1, <1>2, <1>3

(* The invariant of the stages holds throughout.                           *)
LEMMA ChainInvAlways == PlanSpec => []ChainInv
<1>1. PlanInit => ChainInv
  BY PlanningAssumption DEF PlanInit, ChainInv, PlanTypeOK, WeightsArePositive
<1>2. ChainInv /\ [PlanNext]_planVars => ChainInv'
  <2>. SUFFICES ASSUME ChainInv, [PlanNext]_planVars PROVE ChainInv'
    OBVIOUS
  <2>1. CASE PlanRequest
    BY <2>1, PlanRequestKeepsChain
  <2>2. CASE SelectWorker
    BY <2>2, SelectKeepsChain
  <2>3. CASE BuildStage
    BY <2>3, BuildStageKeepsChain
  <2>4. CASE PlaceRequest \/ PlaceWorker \/ BuildShard
    BY <2>4, PlacementKeepsChain
  <2>5. CASE UNCHANGED planVars
    BY <2>5 DEF planVars, ChainInv, PlanTypeOK, WeightsArePositive, Weight, Chain, NextLayer
  <2>. QED
    BY <2>1, <2>2, <2>3, <2>4, <2>5 DEF PlanNext
<1>. QED
  BY <1>1, <1>2, PTL DEF PlanSpec

(* A distributed plan is a whole chain of stages for every fleet and every *)
(* model with at least as many layers as selected workers                  *)
(* (buildDistributedStages, ValidateStageChain).                           *)
THEOREM StageChainsAreWhole == PlanSpec => []StageChainIsWhole
<1>1. ChainInv => StageChainIsWhole
  <2>. SUFFICES ASSUME ChainInv, pc = "planned", taken <= model.layers
                PROVE  /\ Len(parts) = taken
                       /\ parts[1].start = 0
                       /\ \A i \in 1..taken : parts[i].start <= parts[i].end
                       /\ \A i \in 1..taken - 1 : parts[i + 1].start = parts[i].end + 1
                       /\ parts[taken].end = model.layers - 1
    BY DEF StageChainIsWhole
  <2>1. Chain /\ Len(parts) = taken /\ taken >= 2 /\ parts[taken].end = model.layers - 1
    BY DEF ChainInv
  <2>2. parts # <<>>
    BY <2>1 DEF Chain
  <2>. QED
    BY <2>1, <2>2 DEF Chain
<1>. QED
  BY <1>1, ChainInvAlways, PTL

-----------------------------------------------------------------------------
(* Shares of memory and disk                                               *)

(* A quotient is the only integer that fits between its neighbours.        *)
LEMMA Quotient ==
  ASSUME NEW a \in Int, NEW d \in Nat, d > 0
  PROVE  a \div d \in Int /\ d * (a \div d) <= a /\ a < d * (a \div d) + d
OBVIOUS

(* The order of integers is kept by a positive factor.                     *)
LEMMA Multiples ==
  ASSUME NEW a \in Int, NEW b \in Int, NEW c \in Nat
  PROVE  /\ a <= b => c * a <= c * b
         /\ c > 0 /\ c * a <= c * b => a <= b
         /\ c > 0 /\ c * a < c * b => a < b
<1>1. a <= b => c * a <= c * b
  OBVIOUS
<1>2. c > 0 /\ c * a <= c * b => a <= b
  OBVIOUS
<1>3. c > 0 /\ c * a < c * b => a < b
  OBVIOUS
<1>. QED
  BY <1>1, <1>2, <1>3

(* math.Round is off by half a unit at most.                               *)
LEMMA RoundedBounds ==
  ASSUME NEW mem \in Nat, mem > 0, NEW L \in Nat, NEW w \in Nat
  PROVE  LET r == (2 * L * w + mem) \div (2 * mem) IN
         /\ r \in Int
         /\ 2 * (mem * r) <= 2 * (L * w) + mem
         /\ 2 * (L * w) <= 2 * (mem * r) + mem
<1>. DEFINE a == 2 * L * w + mem
            d == 2 * mem
            r == a \div d
<1>1. a \in Int /\ d \in Nat /\ d > 0 /\ a = 2 * (L * w) + mem /\ L * w \in Int
  OBVIOUS
<1>2. r \in Int /\ d * r <= a /\ a < d * r + d
  BY <1>1, Quotient
<1>. HIDE DEF r
<1>3. d * r = 2 * (mem * r) /\ mem * r \in Int
  BY <1>2
<1>4. 2 * (mem * r) <= 2 * (L * w) + mem /\ 2 * (L * w) <= 2 * (mem * r) + mem
  BY <1>1, <1>2, <1>3
<1>. QED
  BY <1>2, <1>4 DEF r

(* ProportionalBytes rounds a share up to the next integer.                *)
LEMMA ProportionalBounds ==
  ASSUME NEW total \in Nat, NEW part \in Nat, NEW whole \in Nat, whole > 0
  PROVE  LET q == ProportionalBytes(total, part, whole) IN
         /\ q \in Nat
         /\ total * part <= whole * q
         /\ \A x \in Nat : total * part <= whole * x => q <= x
<1>. DEFINE q == ProportionalBytes(total, part, whole)
            t == total * part
<1>1. t \in Nat
  OBVIOUS
<1>2. CASE part <= 0 \/ total = 0
  <2>1. q = 0 /\ t = 0
    BY <1>2 DEF ProportionalBytes
  <2>. QED
    BY <2>1
<1>3. CASE ~(part <= 0 \/ total = 0)
  <2>1. q = (t + whole - 1) \div whole
    BY <1>3 DEF ProportionalBytes
  <2>. HIDE DEF t
  <2>2. t + whole - 1 \in Int
    BY <1>1
  <2>3. q \in Int /\ whole * q <= t + whole - 1 /\ t + whole - 1 < whole * q + whole
    BY <2>1, <2>2, Quotient
  <2>. HIDE DEF q
  <2>4. whole * q \in Int /\ t <= whole * q
    BY <1>1, <2>3
  <2>5. ASSUME NEW x \in Nat, t <= whole * x PROVE q <= x
    <3>1. whole * q < whole * x + whole
      BY <2>3, <2>4, <2>5, <1>1
    <3>2. whole * x + whole = whole * (x + 1)
      OBVIOUS
    <3>3. q < x + 1
      BY <3>1, <3>2, <2>3, Multiples
    <3>. QED
      BY <2>3, <3>3
  <2>6. q \in Nat
    <3>1. whole * 0 <= whole * q
      BY <1>1, <2>4
    <3>. QED
      BY <3>1, <2>3, Multiples
  <2>. QED
    BY <2>4, <2>5, <2>6 DEF t, q
<1>. QED
  BY <1>2, <1>3

(* Layers that exceed the share of a weight w by no more than s halves     *)
(* need no more than w and the bytes of those s halves.                    *)
LEMMA StageBytes ==
  ASSUME NEW M \in Nat, NEW mem \in Nat, mem > 0, M <= mem, NEW L \in Nat, L > 0,
         NEW l \in Nat, NEW w \in Nat, NEW s \in Nat,
         2 * (mem * l) <= 2 * (L * w) + s * mem
  PROVE  ProportionalBytes(M, l, L) <= w + ProportionalBytes(M, s, 2 * L)
<1>. DEFINE q == ProportionalBytes(M, s, 2 * L)
<1>1. q \in Nat /\ M * s <= (2 * L) * q
  <2>1. 2 * L \in Nat /\ 2 * L > 0
    OBVIOUS
  <2>. QED
    BY <2>1, ProportionalBounds
<1>. HIDE DEF q
<1>2. M * (2 * (mem * l)) <= M * (2 * (L * w) + s * mem)
  <2>1. 2 * (mem * l) \in Int /\ 2 * (L * w) + s * mem \in Int
    OBVIOUS
  <2>. QED
    BY <2>1, Multiples
<1>3. mem * (M * s) <= mem * ((2 * L) * q)
  <2>1. M * s \in Int /\ (2 * L) * q \in Int
    BY <1>1
  <2>. QED
    BY <1>1, <2>1, Multiples
<1>4. (2 * (L * w)) * M <= (2 * (L * w)) * mem
  <2>1. 2 * (L * w) \in Nat
    OBVIOUS
  <2>. QED
    BY <2>1, Multiples
<1>5. M * (2 * (mem * l)) = (2 * mem) * (M * l)
  OBVIOUS
<1>6. M * (2 * (L * w) + s * mem) = (2 * (L * w)) * M + mem * (M * s)
  OBVIOUS
<1>7. (2 * (L * w)) * mem + mem * ((2 * L) * q) = (2 * mem) * (L * (w + q))
  BY <1>1
<1>8. (2 * mem) * (M * l) <= (2 * mem) * (L * (w + q))
  <2>1. /\ M * (2 * (mem * l)) \in Int /\ (2 * (L * w)) * M \in Int /\ mem * (M * s) \in Int
        /\ (2 * (L * w)) * mem \in Int /\ mem * ((2 * L) * q) \in Int
        /\ (2 * mem) * (L * (w + q)) \in Int
    BY <1>1
  <2>2. (2 * (L * w)) * M + mem * (M * s) <= (2 * (L * w)) * mem + mem * ((2 * L) * q)
    BY <1>3, <1>4, <2>1
  <2>. QED
    BY <1>2, <1>5, <1>6, <1>7, <2>1, <2>2
<1>9. M * l <= L * (w + q)
  <2>1. M * l \in Int /\ L * (w + q) \in Int /\ 2 * mem \in Nat /\ 2 * mem > 0
    BY <1>1
  <2>. QED
    BY <1>8, <2>1, Multiples
<1>10. w + q \in Nat
  BY <1>1
<1>11. ProportionalBytes(M, l, L) <= w + q
  BY <1>9, <1>10, ProportionalBounds
<1>. QED
  BY <1>11 DEF q

(* g holds the sums of the first entries of f.                             *)
SumTable(g, n, f) ==
  /\ g \in [0..n -> Int]
  /\ g[0] = 0
  /\ \A i \in 1..n : g[i] = g[i - 1] + f[i]

SumsTo(f, n, total) == \E g : SumTable(g, n, f) /\ g[n] = total

(* Before the first worker nothing is offered.                             *)
LEMMA SumStarts ==
  ASSUME NEW f
  PROVE  SumsTo(f, 0, 0)
<1>. DEFINE g == [i \in 0..0 |-> 0]
<1>1. g \in [0..0 -> Int] /\ g[0] = 0
  OBVIOUS
<1>. HIDE DEF g
<1>2. SumTable(g, 0, f)
  BY <1>1 DEF SumTable
<1>. QED
  BY <1>1, <1>2 DEF SumsTo

(* One more worker adds what it offers.                                    *)
LEMMA SumExtends ==
  ASSUME NEW n \in Nat, NEW f, NEW total \in Int, SumsTo(f, n, total), f[n + 1] \in Int
  PROVE  SumsTo(f, n + 1, total + f[n + 1])
<1>1. PICK g : SumTable(g, n, f) /\ g[n] = total
  BY DEF SumsTo
<1>. DEFINE h == [i \in 0..n + 1 |-> IF i = n + 1 THEN total + f[n + 1] ELSE g[i]]
<1>2. \A i \in 0..n : g[i] \in Int
  BY <1>1 DEF SumTable
<1>3. h \in [0..n + 1 -> Int] /\ h[n + 1] = total + f[n + 1]
  BY <1>2
<1>4. \A i \in 0..n : h[i] = g[i]
  OBVIOUS
<1>. HIDE DEF h
<1>5. h[0] = 0
  BY <1>1, <1>4 DEF SumTable
<1>6. ASSUME NEW i \in 1..n + 1 PROVE h[i] = h[i - 1] + f[i]
  <2>1. i - 1 \in 0..n /\ h[i - 1] = g[i - 1]
    BY <1>4
  <2>2. CASE i = n + 1
    BY <2>1, <2>2, <1>1, <1>3
  <2>3. CASE i # n + 1
    <3>1. i \in 1..n /\ i \in 0..n
      BY <2>3
    <3>. QED
      BY <3>1, <2>1, <1>1, <1>4 DEF SumTable
  <2>. QED
    BY <2>2, <2>3
<1>7. SumTable(h, n + 1, f)
  BY <1>3, <1>5, <1>6 DEF SumTable
<1>. QED
  BY <1>3, <1>7 DEF SumsTo

Weights  == [i \in 1..Len(candidates) |-> Weight(candidates[i])]
Memories == [i \in 1..Len(candidates) |-> fleet[candidates[i]].memory]
Storages == [i \in 1..Len(candidates) |-> EffectiveStorage(candidates[i])]

(* What workers offer are natural numbers; the weights of a distributed    *)
(* plan are positive.                                                      *)
LEMMA OfferTypes ==
  ASSUME ChainInv, NEW i \in 1..Len(candidates)
  PROVE  /\ candidates[i] \in Worker
         /\ Memories[i] = fleet[candidates[i]].memory /\ Memories[i] \in Nat
         /\ Storages[i] = EffectiveStorage(candidates[i]) /\ Storages[i] \in Nat
         /\ Weights[i] = Weight(candidates[i]) /\ Weights[i] \in Int
         /\ Weights[i] = Memories[i] - StageOverhead /\ StageOverhead \in Nat
<1>1. candidates[i] \in Worker /\ fleet \in [Worker -> WorkerSnapshot]
  BY DEF ChainInv, PlanTypeOK
<1>2. fleet[candidates[i]] \in WorkerSnapshot
  BY <1>1
<1>3. /\ fleet[candidates[i]].memory \in Nat /\ fleet[candidates[i]].storage \in Nat
      /\ fleet[candidates[i]].free \in Nat
  BY <1>2 DEF WorkerSnapshot
<1>4. StageOverhead \in Nat
  BY PlanningAssumption
<1>5. Memories[i] = fleet[candidates[i]].memory
  BY DEF Memories
<1>6. Storages[i] = EffectiveStorage(candidates[i])
  BY DEF Storages
<1>7. Weights[i] = Weight(candidates[i])
  BY DEF Weights
<1>8. EffectiveStorage(candidates[i]) \in Nat
  BY <1>3 DEF EffectiveStorage
<1>9. Weight(candidates[i]) = fleet[candidates[i]].memory - StageOverhead
  BY DEF Weight
<1>10. Weight(candidates[i]) \in Int
  BY <1>3, <1>4, <1>9
<1>. QED
  BY <1>1, <1>3, <1>4, <1>5, <1>6, <1>7, <1>8, <1>9, <1>10

Slack == IF taken - 1 > 2 THEN taken - 1 ELSE 2

StageFits(k) ==
  /\ parts[k].worker = candidates[k]
  /\ parts[k].memory <= fleet[candidates[k]].memory
                          + ProportionalBytes(model.memory, Slack, 2 * model.layers)

(* The layers given out so far: either only one is left for each of the    *)
(* other workers, or they are the share of the workers that got them, less *)
(* half a layer for each.                                                  *)
Balance(g) ==
  \/ NextLayer = model.layers - (taken - Len(parts))
  \/ 2 * (model.layers * g[Len(parts)]) <= 2 * (memory * NextLayer) + Len(parts) * memory

StageInv ==
  /\ pc = "select" => SumsTo(Weights, taken, memory)
  /\ pc = "split" => memory >= model.memory
  /\ pc = "split" /\ taken <= model.layers =>
       /\ \A k \in 1..Len(parts) : StageFits(k)
       /\ \E g : SumTable(g, taken, Weights) /\ g[taken] = memory /\ Balance(g)
  /\ pc = "planned" /\ taken <= model.layers => \A k \in 1..taken : StageFits(k)

(* The selection adds up the weights.                                      *)
LEMMA SelectionKeepsShares ==
  ASSUME ChainInv, StageInv, PlanRequest \/ SelectWorker
  PROVE  StageInv'
<1>1. CASE PlanRequest
  <2>1. /\ pc' \in {"blocked", "select"} /\ taken' = 0 /\ memory' = 0
    BY <1>1 DEF PlanRequest, ChainInv
  <2>2. SumsTo(Weights', 0, 0)
    BY SumStarts
  <2>. QED
    BY <2>1, <2>2 DEF StageInv
<1>2. CASE SelectWorker
  <2>. DEFINE w == candidates[taken + 1]
  <2>1. /\ pc = "select" /\ parts = <<>> /\ taken \in Nat /\ taken < Len(candidates)
        /\ memory \in Int /\ candidates \in Seq(Worker) /\ model.layers \in Nat
    BY <1>2 DEF SelectWorker, ChainInv, PlanTypeOK
  <2>2. /\ UNCHANGED <<fleet, model, candidates, parts>>
        /\ taken' = taken + 1 /\ memory' = memory + Weight(w)
    BY <1>2 DEF SelectWorker
  <2>3. \/ pc' = "split" /\ memory' >= model.memory
        \/ pc' \in {"blocked", "select"}
    BY <1>2 DEF SelectWorker
  <2>4. taken + 1 \in 1..Len(candidates)
    BY <2>1
  <2>5. Weights[taken + 1] = Weight(w) /\ Weights[taken + 1] \in Int
    BY <2>4, OfferTypes
  <2>6. SumsTo(Weights, taken + 1, memory + Weights[taken + 1])
    BY <2>1, <2>5, SumExtends DEF StageInv
  <2>7. Weights' = Weights
    BY <2>2 DEF Weights, Weight
  <2>8. SumsTo(Weights', taken', memory')
    BY <2>2, <2>5, <2>6, <2>7
  <2>9. CASE pc' = "split"
    <3>1. PICK g : SumTable(g, taken', Weights') /\ g[taken'] = memory'
      BY <2>8 DEF SumsTo
    <3>2. NextLayer' = 0 /\ Len(parts') = 0
      BY <2>1, <2>2 DEF NextLayer
    <3>3. g[0] = 0
      BY <3>1 DEF SumTable
    <3>4. memory' \in Int
      BY <2>1, <2>2, <2>5
    <3>5. 2 * (model'.layers * g[Len(parts')]) = 0 /\ 2 * (memory' * NextLayer') = 0
          /\ Len(parts') * memory' = 0
      BY <2>1, <2>2, <3>2, <3>3, <3>4
    <3>6. Balance(g)'
      BY <3>5 DEF Balance
    <3>7. \A k \in 1..Len(parts') : StageFits(k)'
      BY <3>2
    <3>8. memory' >= model'.memory
      BY <2>2, <2>3, <2>9
    <3>. QED
      BY <2>9, <3>1, <3>6, <3>7, <3>8 DEF StageInv
  <2>10. CASE pc' # "split"
    BY <2>3, <2>8, <2>10 DEF StageInv
  <2>. QED
    BY <2>9, <2>10
<1>. QED
  BY <1>1, <1>2

(* A number of layers that is at most one, or at most the rounded share of *)
(* the weight w, exceeds that share by no more than a layer.               *)
LEMMA ShareAbove ==
  ASSUME NEW mem \in Nat, NEW lw \in Nat, NEW r \in Int, NEW l \in Int,
         NEW s \in Nat, s >= 2, l <= 1 \/ l <= r, 2 * (mem * r) <= 2 * lw + mem
  PROVE  2 * (mem * l) <= 2 * lw + s * mem
<1>1. mem * l \in Int /\ mem * r \in Int /\ s * mem \in Int /\ mem * 2 <= mem * s
  BY Multiples
<1>2. CASE l <= 1
  <2>1. mem * l <= mem * 1
    BY <1>2, Multiples
  <2>. QED
    BY <1>1, <2>1
<1>3. CASE l <= r
  <2>1. mem * l <= mem * r
    BY <1>3, Multiples
  <2>. QED
    BY <1>1, <2>1
<1>. QED
  BY <1>2, <1>3

(* A number of layers that is at least the rounded share of the next       *)
(* worker keeps the balance.                                               *)
LEMMA ShareBelow ==
  ASSUME NEW mem \in Nat, NEW L \in Nat, NEW w \in Nat, NEW r \in Int, NEW l \in Int,
         NEW given \in Int, NEW next \in Int, NEW n \in Nat, r <= l,
         2 * (L * w) <= 2 * (mem * r) + mem,
         2 * (L * given) <= 2 * (mem * next) + n * mem
  PROVE  2 * (L * (given + w)) <= 2 * (mem * (next + l)) + (n + 1) * mem
<1>1. /\ L * w \in Int /\ mem * r \in Int /\ L * given \in Int /\ mem * next \in Int
      /\ n * mem \in Int /\ mem * l \in Int
  OBVIOUS
<1>2. mem * r <= mem * l
  BY Multiples
<1>3. L * (given + w) = L * given + L * w
  OBVIOUS
<1>4. mem * (next + l) = mem * next + mem * l
  OBVIOUS
<1>5. (n + 1) * mem = n * mem + mem
  OBVIOUS
<1>. QED
  BY <1>1, <1>2, <1>3, <1>4, <1>5

(* What is left for the last worker exceeds its share by half a layer for  *)
(* each of the others.                                                     *)
LEMMA ShareOfRest ==
  ASSUME NEW mem \in Nat, NEW L \in Nat, NEW w \in Nat, NEW given \in Int, NEW next \in Int,
         NEW n \in Nat, NEW s \in Nat, n <= s, given + w = mem,
         2 * (L * given) <= 2 * (mem * next) + n * mem
  PROVE  2 * (mem * (L - next)) <= 2 * (L * w) + s * mem
<1>1. /\ L * w \in Int /\ L * given \in Int /\ mem * next \in Int
      /\ n * mem \in Int /\ s * mem \in Int /\ L * mem \in Int
  OBVIOUS
<1>2. mem * n <= mem * s
  BY Multiples
<1>3. L * mem = L * given + L * w
  OBVIOUS
<1>4. mem * (L - next) = L * mem - mem * next
  OBVIOUS
<1>5. n * mem <= s * mem
  BY <1>2
<1>. QED
  BY <1>1, <1>3, <1>4, <1>5

(* StageLayers: at least one layer, no more than its worker can hold but   *)
(* for the slack, and the balance is kept.                                 *)
LEMMA StageLayersShare ==
  ASSUME ChainInv, pc = "split", taken <= model.layers, NEW g, SumTable(g, taken, Weights),
         g[taken] = memory, Balance(g)
  PROVE  LET i == Len(parts) + 1
             w == Weight(candidates[i])
         IN  /\ StageLayers(i) \in Nat
             /\ 2 * (memory * StageLayers(i)) <= 2 * (model.layers * w) + Slack * memory
             /\ i < taken =>
                  \/ NextLayer + StageLayers(i) = model.layers - (taken - i)
                  \/ 2 * (model.layers * g[i])
                       <= 2 * (memory * (NextLayer + StageLayers(i))) + i * memory
<1>. DEFINE n    == Len(parts)
            i    == n + 1
            w    == Weight(candidates[i])
            l    == StageLayers(i)
            L    == model.layers
            next == NextLayer
            r    == Rounded(w)
<1>1. /\ parts \in Seq(StageRecord) /\ n \in Nat /\ n < taken /\ taken >= 2 /\ taken \in Nat
      /\ taken <= Len(candidates) /\ candidates \in Seq(Worker) /\ L \in Nat \ {0}
      /\ memory \in Int /\ memory >= taken /\ next + (taken - n) <= L
  BY DEF ChainInv, PlanTypeOK, WeightsArePositive
<1>2. next \in Int
  <2>1. CASE parts = <<>>
    BY <2>1 DEF NextLayer
  <2>2. CASE parts # <<>>
    <3>1. parts[Len(parts)] \in StageRecord
      BY <1>1, <2>2
    <3>. QED
      BY <2>2, <3>1 DEF NextLayer, StageRecord
  <2>. QED
    BY <2>1, <2>2
<1>3. i \in 1..Len(candidates) /\ i \in 1..taken /\ n \in 0..taken /\ i \in Nat
  BY <1>1
<1>4. w \in Nat /\ Weights[i] = w
  <2>1. Weights[i] = w /\ Weights[i] \in Int
    BY <1>3, OfferTypes
  <2>2. w > 0
    BY <1>3 DEF ChainInv, WeightsArePositive
  <2>. QED
    BY <2>1, <2>2
<1>5. memory \in Nat /\ memory > 0
  BY <1>1
<1>6. g[i] = g[n] + w /\ g[n] \in Int
  <2>1. g[i] = g[i - 1] + Weights[i] /\ \A k \in 0..taken : g[k] \in Int
    BY <1>3 DEF SumTable
  <2>2. i - 1 = n
    BY <1>1
  <2>. QED
    BY <1>3, <1>4, <2>1, <2>2
<1>7. /\ r \in Int
      /\ 2 * (memory * r) <= 2 * (L * w) + memory
      /\ 2 * (L * w) <= 2 * (memory * r) + memory
  <2>1. r = (2 * L * w + memory) \div (2 * memory)
    BY DEF Rounded
  <2>. HIDE DEF r, L, w
  <2>. QED
    BY <1>1, <1>4, <1>5, <2>1, RoundedBounds
<1>8. Slack \in Nat /\ Slack >= 2 /\ taken - 1 <= Slack
  BY <1>1 DEF Slack
<1>9. L * w \in Nat
  BY <1>1, <1>4
<1>10. l = IF i = taken THEN L - next
           ELSE IF (IF r < 1 THEN 1 ELSE r) > L - next - (taken - i)
                  THEN L - next - (taken - i) ELSE IF r < 1 THEN 1 ELSE r
  BY DEF StageLayers
<1>11. \/ next = L - (taken - n)
       \/ 2 * (L * g[n]) <= 2 * (memory * next) + n * memory
  BY DEF Balance
<1>. HIDE DEF n, i, w, l, L, next, r, Slack
<1>12. i = n + 1
  BY DEF i
<1>13. CASE i = taken
  <2>1. l = L - next /\ l \in Nat
    <3>1. l = L - next
      BY <1>10, <1>13
    <3>2. L - next \in Nat
      BY <1>1, <1>2
    <3>. QED
      BY <3>1, <3>2
  <2>2. 2 * (memory * l) <= 2 * (L * w) + Slack * memory
    <3>1. CASE next = L - (taken - n)
      <4>1. l <= 1
        BY <3>1, <2>1, <1>1, <1>2, <1>12, <1>13
      <4>. QED
        BY <4>1, <2>1, <1>5, <1>7, <1>8, <1>9, ShareAbove
    <3>2. CASE 2 * (L * g[n]) <= 2 * (memory * next) + n * memory
      <4>1. n <= Slack /\ g[n] + w = memory
        BY <1>1, <1>4, <1>6, <1>8, <1>12, <1>13
      <4>2. L \in Nat
        BY <1>1
      <4>. QED
        BY <4>1, <4>2, <3>2, <2>1, <1>1, <1>2, <1>4, <1>5, <1>6, <1>8, ShareOfRest
    <3>. QED
      BY <3>1, <3>2, <1>11
  <2>. QED
    BY <2>1, <2>2, <1>1, <1>13 DEF i, n, w, l, L, next
<1>14. CASE i # taken
  <2>. DEFINE one == IF r < 1 THEN 1 ELSE r
              max == L - next - (taken - i)
  <2>1. l = IF one > max THEN max ELSE one
    BY <1>10, <1>14
  <2>2. /\ one \in Int /\ one >= 1 /\ max \in Int /\ max >= 1 /\ (one = 1 \/ one = r)
        /\ one >= r
    BY <1>1, <1>2, <1>7, <1>12
  <2>3. next + max = L - (taken - i)
    BY <1>1, <1>2, <1>12
  <2>4. next = L - (taken - n) => max = 1
    BY <1>1, <1>2, <1>12
  <2>. HIDE DEF one, max
  <2>5. l \in Nat /\ (l <= 1 \/ l <= r) /\ (l = max \/ (l = one /\ r <= l /\ l < max))
    <3>1. CASE one > max
      BY <3>1, <2>1, <2>2, <1>7
    <3>2. CASE one = max
      BY <3>2, <2>1, <2>2, <1>7
    <3>3. CASE one < max
      BY <3>3, <2>1, <2>2, <1>7
    <3>. QED
      BY <3>1, <3>2, <3>3, <2>2
  <2>6. 2 * (memory * l) <= 2 * (L * w) + Slack * memory
    BY <2>5, <1>5, <1>7, <1>8, <1>9, ShareAbove
  <2>7. \/ next + l = L - (taken - i)
        \/ 2 * (L * g[i]) <= 2 * (memory * (next + l)) + i * memory
    <3>1. CASE l = max
      BY <3>1, <2>3
    <3>2. CASE l = one /\ r <= l /\ l < max
      <4>1. 2 * (L * g[n]) <= 2 * (memory * next) + n * memory
        BY <3>2, <2>2, <2>4, <2>5, <1>11
      <4>2. L \in Nat /\ l \in Int
        BY <1>1, <2>5
      <4>3. 2 * (L * (g[n] + w)) <= 2 * (memory * (next + l)) + (n + 1) * memory
        BY <4>1, <4>2, <3>2, <1>1, <1>2, <1>4, <1>5, <1>6, <1>7, ShareBelow
      <4>. QED
        BY <4>3, <1>6, <1>12
    <3>. QED
      BY <3>1, <3>2, <2>5
  <2>. QED
    BY <2>5, <2>6, <2>7 DEF i, n, w, l, L, next
<1>. QED
  BY <1>13, <1>14

(* A new stage fits its worker, and the older ones are left alone.         *)
LEMMA BuildStageKeepsShares ==
  ASSUME ChainInv, StageInv, BuildStage
  PROVE  StageInv'
<1>. DEFINE i      == Len(parts) + 1
            layers == StageLayers(i)
            stage  == [worker |-> candidates[i], start |-> NextLayer,
                       end |-> NextLayer + layers - 1,
                       memory |-> ProportionalBytes(model.memory, layers, model.layers)
                                    + StageOverhead,
                       disk |-> ProportionalBytes(model.disk, layers, model.layers)]
<1>1. /\ pc = "split" /\ parts \in Seq(StageRecord) /\ Len(parts) < taken
      /\ taken \in Nat /\ taken <= Len(candidates) /\ memory \in Int /\ memory >= taken
      /\ model.layers \in Nat \ {0} /\ model.memory \in Nat /\ taken >= 2
      /\ memory >= model.memory
  BY DEF BuildStage, ChainInv, PlanTypeOK, WeightsArePositive, StageInv
<1>2. /\ parts' = Append(parts, stage)
      /\ pc' = IF i = taken THEN "planned" ELSE "split"
      /\ UNCHANGED <<fleet, model, candidates, taken, memory, disk>>
  BY DEF BuildStage
<1>3. Len(parts) \in Nat /\ i \in 1..taken /\ i \in 1..Len(candidates)
  BY <1>1
<1>4. stage.worker = candidates[i] /\ stage.end = NextLayer + layers - 1
      /\ stage.memory = ProportionalBytes(model.memory, layers, model.layers) + StageOverhead
  OBVIOUS
<1>5. /\ Len(parts') = i /\ parts'[i] = stage /\ parts' # <<>>
      /\ \A k \in 1..Len(parts) : parts'[k] = parts[k]
  <2>. HIDE DEF stage
  <2>. QED
    BY <1>1, <1>2
<1>. HIDE DEF stage
<1>6. CASE ~(taken <= model.layers)
  BY <1>1, <1>2, <1>6 DEF StageInv
<1>7. CASE taken <= model.layers
  <2>1. PICK g : SumTable(g, taken, Weights) /\ g[taken] = memory /\ Balance(g)
    BY <1>1, <1>7 DEF StageInv
  <2>2. /\ layers \in Nat
        /\ 2 * (memory * layers) <= 2 * (model.layers * Weight(candidates[i])) + Slack * memory
        /\ i < taken =>
             \/ NextLayer + layers = model.layers - (taken - i)
             \/ 2 * (model.layers * g[i]) <= 2 * (memory * (NextLayer + layers)) + i * memory
    BY <1>1, <1>7, <2>1, StageLayersShare
  <2>. HIDE DEF layers
  <2>3. ASSUME NEW k, k = i PROVE StageFits(k)'
    <3>. DEFINE w == Weight(candidates[i])
    <3>1. /\ w \in Nat /\ w = fleet[candidates[i]].memory - StageOverhead
          /\ fleet[candidates[i]].memory \in Nat /\ StageOverhead \in Nat
      <4>1. w \in Int /\ w > 0
        BY <1>1, <1>3, OfferTypes DEF ChainInv, WeightsArePositive
      <4>2. w = fleet[candidates[i]].memory - StageOverhead
        BY DEF Weight
      <4>3. fleet[candidates[i]].memory \in Nat /\ StageOverhead \in Nat
        BY <1>3, OfferTypes
      <4>. QED
        BY <4>1, <4>2, <4>3
    <3>. HIDE DEF w
    <3>2. Slack \in Nat /\ memory \in Nat /\ memory > 0 /\ model.layers \in Nat /\ model.layers > 0
      BY <1>1 DEF Slack
    <3>3. ProportionalBytes(model.memory, layers, model.layers)
            <= w + ProportionalBytes(model.memory, Slack, 2 * model.layers)
      BY <1>1, <2>2, <3>1, <3>2, StageBytes DEF w
    <3>4. /\ ProportionalBytes(model.memory, layers, model.layers) \in Int
          /\ ProportionalBytes(model.memory, Slack, 2 * model.layers) \in Int
      <4>1. layers \in Int /\ Slack \in Int /\ 2 * model.layers \in Nat \ {0}
        BY <1>1, <2>2, <3>2, SMTT(30)
      <4>. QED
        BY <1>1, <4>1, ProportionalType
    <3>. DEFINE bytes == ProportionalBytes(model.memory, layers, model.layers)
                slack == ProportionalBytes(model.memory, Slack, 2 * model.layers)
    <3>5. bytes + StageOverhead <= fleet[candidates[i]].memory + slack
      <4>. HIDE DEF bytes, slack
      <4>1. bytes <= w + slack /\ bytes \in Int /\ slack \in Int
        BY <3>3, <3>4 DEF bytes, slack
      <4>. QED
        BY <3>1, <4>1, SMTT(30)
    <3>6. parts'[k].memory = bytes + StageOverhead /\ parts'[k].worker = candidates[k]
      BY <1>4, <1>5, <2>3
    <3>7. slack = ProportionalBytes(model.memory, Slack, 2 * model.layers)'
      BY <1>2 DEF ProportionalBytes, Slack
    <3>. HIDE DEF bytes, slack
    <3>. QED
      BY <1>2, <2>3, <3>5, <3>6, <3>7 DEF StageFits
  <2>4. ASSUME NEW k \in 1..Len(parts) PROVE StageFits(k)'
    <3>1. StageFits(k) /\ parts'[k] = parts[k]
      BY <1>1, <1>5, <1>7 DEF StageInv
    <3>2. Slack' = Slack
      BY <1>2 DEF Slack
    <3>. QED
      BY <1>2, <3>1, <3>2 DEF StageFits, ProportionalBytes
  <2>5. \A k \in 1..i : StageFits(k)'
    <3>1. \A k \in 1..i : k = i \/ k \in 1..Len(parts)
      BY <1>3
    <3>. QED
      BY <3>1, <2>3, <2>4
  <2>6. CASE i = taken
    <3>1. pc' = "planned" /\ taken' = i
      BY <2>6, <1>2
    <3>. QED
      BY <2>5, <3>1 DEF StageInv
  <2>7. CASE i # taken
    <3>0. pc' = "split"
      BY <2>7, <1>2
    <3>1. i < taken
      BY <2>7, <1>1, <1>3
    <3>2. NextLayer' = NextLayer + layers
      <4>1. NextLayer \in Int
        <5>1. CASE parts = <<>>
          BY <5>1 DEF NextLayer
        <5>2. CASE parts # <<>>
          <6>1. parts[Len(parts)] \in StageRecord
            BY <1>1, <5>2
          <6>. QED
            BY <5>2, <6>1 DEF NextLayer, StageRecord
        <5>. QED
          BY <5>1, <5>2
      <4>2. NextLayer' = stage.end + 1
        BY <1>5 DEF NextLayer
      <4>. QED
        BY <4>1, <4>2, <2>2, <1>4
    <3>3. Weights' = Weights
      BY <1>2 DEF Weights, Weight
    <3>4. SumTable(g, taken', Weights') /\ g[taken'] = memory'
      BY <2>1, <1>2, <3>3
    <3>5. Balance(g)'
      BY <2>2, <3>1, <3>2, <1>2, <1>5 DEF Balance
    <3>. QED
      BY <2>5, <3>0, <3>4, <3>5, <1>1, <1>2, <1>5 DEF StageInv
  <2>. QED
    BY <2>6, <2>7
<1>. QED
  BY <1>6, <1>7

(* What is left of a total when some of it is given out.                   *)
Remaining(total, given) == IF given >= total THEN 0 ELSE total - given

(* A worker takes what it can hold of the rest, the last one all of it.    *)
LEMMA OneShard ==
  ASSUME NEW total \in Nat, NEW given \in Int, NEW size \in Nat
  PROVE  LET rest == Remaining(total, given) IN
         /\ rest \in Nat
         /\ Smaller(size, rest) \in Int
         /\ Smaller(size, rest) <= size
         /\ rest - Smaller(size, rest) = Remaining(total, given + size)
         /\ given + size >= total => rest <= size
<1>. DEFINE rest == Remaining(total, given)
<1>1. rest \in Nat
  BY DEF Remaining
<1>2. Smaller(size, rest) \in Int /\ Smaller(size, rest) <= size
  BY <1>1 DEF Smaller
<1>3. rest - Smaller(size, rest) = Remaining(total, given + size)
  BY DEF Remaining, Smaller
<1>4. given + size >= total => rest <= size
  BY DEF Remaining
<1>. QED
  BY <1>1, <1>2, <1>3, <1>4

ShardRecord == [worker : Worker, memory : Int, disk : Int, restMemory : Int, restDisk : Int]

RestMemory == IF parts = <<>> THEN model.memory ELSE parts[Len(parts)].restMemory
RestDisk   == IF parts = <<>> THEN model.disk ELSE parts[Len(parts)].restDisk

ShardFits(k) ==
  /\ parts[k].worker = candidates[k]
  /\ parts[k].memory <= fleet[candidates[k]].memory
  /\ parts[k].disk <= EffectiveStorage(candidates[k])

(* The rest is what the workers with a shard cannot hold.                  *)
ShardInv ==
  /\ pc = "start" => disk = 0
  /\ pc = "place" => /\ parts = <<>> /\ disk \in Int
                     /\ SumsTo(Memories, taken, memory)
                     /\ SumsTo(Storages, taken, disk)
  /\ pc = "shard" =>
       /\ parts \in Seq(ShardRecord) /\ Len(parts) < taken
       /\ memory >= model.memory /\ disk >= model.disk
       /\ \A k \in 1..Len(parts) : ShardFits(k)
       /\ \E g : /\ SumTable(g, taken, Memories) /\ g[taken] = memory
                 /\ RestMemory = Remaining(model.memory, g[Len(parts)])
       /\ \E h : /\ SumTable(h, taken, Storages) /\ h[taken] = disk
                 /\ RestDisk = Remaining(model.disk, h[Len(parts)])
  /\ pc = "sharded" =>
       /\ \A k \in 1..taken : ShardFits(k)
       /\ parts[taken].restMemory = 0 /\ parts[taken].restDisk = 0

(* The selection of modelPlacementPlan adds up memory and storage.         *)
LEMMA PlacingKeepsShards ==
  ASSUME ChainInv, ShardInv, PlaceRequest \/ PlaceWorker
  PROVE  ShardInv'
<1>1. CASE PlaceRequest
  <2>1. /\ pc' \in {"single", "blocked", "place"} /\ taken' = 0 /\ memory' = 0 /\ disk' = 0
        /\ parts' = <<>>
    BY <1>1 DEF PlaceRequest, ChainInv, ShardInv
  <2>2. SumsTo(Memories', 0, 0) /\ SumsTo(Storages', 0, 0)
    BY SumStarts
  <2>. QED
    BY <2>1, <2>2 DEF ShardInv
<1>2. CASE PlaceWorker
  <2>. DEFINE w == candidates[taken + 1]
  <2>1. /\ pc = "place" /\ parts = <<>> /\ taken \in Nat /\ taken < Len(candidates)
        /\ memory \in Int /\ disk \in Int /\ candidates \in Seq(Worker)
        /\ model.memory \in Nat /\ model.disk \in Nat
    BY <1>2 DEF PlaceWorker, ChainInv, PlanTypeOK, ShardInv
  <2>2. /\ UNCHANGED <<fleet, model, candidates, parts>>
        /\ taken' = taken + 1 /\ memory' = memory + fleet[w].memory
        /\ disk' = disk + EffectiveStorage(w)
    BY <1>2 DEF PlaceWorker
  <2>3. \/ pc' = "shard" /\ memory' >= model.memory /\ disk' >= model.disk
        \/ pc' \in {"blocked", "place"}
    BY <1>2 DEF PlaceWorker
  <2>4. taken + 1 \in 1..Len(candidates)
    BY <2>1
  <2>5. /\ Memories[taken + 1] = fleet[w].memory /\ Memories[taken + 1] \in Int
        /\ Storages[taken + 1] = EffectiveStorage(w) /\ Storages[taken + 1] \in Int
    BY <2>4, OfferTypes
  <2>6. /\ SumsTo(Memories, taken + 1, memory + Memories[taken + 1])
        /\ SumsTo(Storages, taken + 1, disk + Storages[taken + 1])
    BY <2>1, <2>5, SumExtends DEF ShardInv
  <2>7. Memories' = Memories /\ Storages' = Storages
    BY <2>2 DEF Memories, Storages, EffectiveStorage
  <2>8. SumsTo(Memories', taken', memory') /\ SumsTo(Storages', taken', disk')
    BY <2>2, <2>5, <2>6, <2>7
  <2>9. disk' \in Int
    BY <2>1, <2>2, <2>5
  <2>10. CASE pc' = "shard"
    <3>1. PICK g : SumTable(g, taken', Memories') /\ g[taken'] = memory'
      BY <2>8 DEF SumsTo
    <3>2. PICK h : SumTable(h, taken', Storages') /\ h[taken'] = disk'
      BY <2>8 DEF SumsTo
    <3>3. parts' = <<>> /\ Len(parts') = 0 /\ parts' \in Seq(ShardRecord)
      BY <2>1, <2>2
    <3>4. g[0] = 0 /\ h[0] = 0
      BY <3>1, <3>2 DEF SumTable
    <3>5. RestMemory' = model.memory /\ RestDisk' = model.disk
      BY <2>2, <3>3 DEF RestMemory, RestDisk
    <3>6. Remaining(model.memory, 0) = model.memory /\ Remaining(model.disk, 0) = model.disk
      BY <2>1 DEF Remaining
    <3>7. /\ RestMemory' = Remaining(model'.memory, g[Len(parts')])
          /\ RestDisk' = Remaining(model'.disk, h[Len(parts')])
      BY <2>2, <3>3, <3>4, <3>5, <3>6
    <3>8. memory' >= model'.memory /\ disk' >= model'.disk
      BY <2>2, <2>3, <2>10
    <3>9. Len(parts') < taken'
      BY <2>1, <2>2, <3>3
    <3>10. \A k \in 1..Len(parts') : ShardFits(k)'
      BY <3>3
    <3>. QED
      BY <2>10, <3>1, <3>2, <3>3, <3>7, <3>8, <3>9, <3>10 DEF ShardInv
  <2>11. CASE pc' # "shard"
    BY <2>1, <2>2, <2>3, <2>8, <2>9, <2>11 DEF ShardInv
  <2>. QED
    BY <2>10, <2>11
<1>. QED
  BY <1>1, <1>2

(* A new shard fits its worker, the last one because all of them together  *)
(* can hold the model.                                                     *)
LEMMA BuildShardKeepsShards ==
  ASSUME ChainInv, ShardInv, BuildShard
  PROVE  ShardInv'
<1>. DEFINE i == Len(parts) + 1
            w == candidates[i]
            m == IF i = taken THEN RestMemory ELSE Smaller(fleet[w].memory, RestMemory)
            d == IF i = taken THEN RestDisk ELSE Smaller(EffectiveStorage(w), RestDisk)
            shard == [worker |-> w, memory |-> m, disk |-> d,
                      restMemory |-> RestMemory - m, restDisk |-> RestDisk - d]
<1>1. /\ pc = "shard" /\ parts \in Seq(ShardRecord) /\ Len(parts) < taken
      /\ taken \in Nat /\ taken <= Len(candidates)
      /\ model.memory \in Nat /\ model.disk \in Nat
      /\ memory >= model.memory /\ disk >= model.disk
  BY DEF BuildShard, ChainInv, PlanTypeOK, ShardInv
<1>2. /\ parts' = Append(parts, shard)
      /\ pc' = IF i = taken THEN "sharded" ELSE "shard"
      /\ UNCHANGED <<fleet, model, candidates, taken, memory, disk>>
  <2>1. parts # <<>> => i - 1 = Len(parts)
    BY <1>1
  <2>. QED
    BY <2>1 DEF BuildShard, RestMemory, RestDisk
<1>3. Len(parts) \in Nat /\ i \in 1..taken /\ i \in 1..Len(candidates) /\ i - 1 = Len(parts)
      /\ Len(parts) \in 0..taken
  BY <1>1
<1>4. PICK g : /\ SumTable(g, taken, Memories) /\ g[taken] = memory
               /\ RestMemory = Remaining(model.memory, g[Len(parts)])
  BY <1>1 DEF ShardInv
<1>5. PICK h : /\ SumTable(h, taken, Storages) /\ h[taken] = disk
               /\ RestDisk = Remaining(model.disk, h[Len(parts)])
  BY <1>1 DEF ShardInv
<1>6. /\ w \in Worker
      /\ Memories[i] = fleet[w].memory /\ Memories[i] \in Nat
      /\ Storages[i] = EffectiveStorage(w) /\ Storages[i] \in Nat
  BY <1>3, OfferTypes
<1>7. g[i] = g[Len(parts)] + fleet[w].memory /\ g[Len(parts)] \in Int
  BY <1>3, <1>4, <1>6 DEF SumTable
<1>8. h[i] = h[Len(parts)] + EffectiveStorage(w) /\ h[Len(parts)] \in Int
  BY <1>3, <1>5, <1>6 DEF SumTable
<1>9. /\ m \in Int /\ m <= fleet[w].memory /\ RestMemory \in Int
      /\ i = taken => RestMemory - m = 0
      /\ i # taken => RestMemory - m = Remaining(model.memory, g[i])
  <2>1. /\ RestMemory \in Nat /\ Smaller(fleet[w].memory, RestMemory) \in Int
        /\ Smaller(fleet[w].memory, RestMemory) <= fleet[w].memory
        /\ RestMemory - Smaller(fleet[w].memory, RestMemory) = Remaining(model.memory, g[i])
        /\ g[i] >= model.memory => RestMemory <= fleet[w].memory
    <3>. DEFINE size == fleet[w].memory
                given == g[Len(parts)]
                total == model.memory
    <3>1. total \in Nat /\ given \in Int /\ size \in Nat
      BY <1>1, <1>6, <1>7
    <3>2. RestMemory = Remaining(total, given) /\ g[i] = given + size
      BY <1>4, <1>7
    <3>. HIDE DEF size, given, total, i
    <3>3. LET rest == Remaining(total, given) IN
          /\ rest \in Nat
          /\ Smaller(size, rest) \in Int
          /\ Smaller(size, rest) <= size
          /\ rest - Smaller(size, rest) = Remaining(total, given + size)
          /\ given + size >= total => rest <= size
      BY <3>1, OneShard
    <3>. QED
      BY <3>2, <3>3 DEF size, total
  <2>2. i = taken => g[i] >= model.memory
    BY <1>1, <1>4
  <2>. HIDE DEF w, i
  <2>. QED
    BY <2>1, <2>2
<1>10. /\ d \in Int /\ d <= EffectiveStorage(w) /\ RestDisk \in Int
       /\ i = taken => RestDisk - d = 0
       /\ i # taken => RestDisk - d = Remaining(model.disk, h[i])
  <2>1. /\ RestDisk \in Nat /\ Smaller(EffectiveStorage(w), RestDisk) \in Int
        /\ Smaller(EffectiveStorage(w), RestDisk) <= EffectiveStorage(w)
        /\ RestDisk - Smaller(EffectiveStorage(w), RestDisk) = Remaining(model.disk, h[i])
        /\ h[i] >= model.disk => RestDisk <= EffectiveStorage(w)
    <3>. DEFINE size == EffectiveStorage(w)
                given == h[Len(parts)]
                total == model.disk
    <3>1. total \in Nat /\ given \in Int /\ size \in Nat
      BY <1>1, <1>6, <1>8
    <3>2. RestDisk = Remaining(total, given) /\ h[i] = given + size
      BY <1>5, <1>8
    <3>. HIDE DEF size, given, total, i
    <3>3. LET rest == Remaining(total, given) IN
          /\ rest \in Nat
          /\ Smaller(size, rest) \in Int
          /\ Smaller(size, rest) <= size
          /\ rest - Smaller(size, rest) = Remaining(total, given + size)
          /\ given + size >= total => rest <= size
      BY <3>1, OneShard
    <3>. QED
      BY <3>2, <3>3 DEF size, total
  <2>2. i = taken => h[i] >= model.disk
    BY <1>1, <1>5
  <2>. HIDE DEF w, i
  <2>. QED
    BY <2>1, <2>2
<1>. HIDE DEF m, d
<1>11. /\ shard \in ShardRecord /\ shard.worker = w /\ shard.memory = m /\ shard.disk = d
       /\ shard.restMemory = RestMemory - m /\ shard.restDisk = RestDisk - d
  <2>1. RestMemory - m \in Int /\ RestDisk - d \in Int
    BY <1>9, <1>10
  <2>. QED
    BY <2>1, <1>6, <1>9, <1>10 DEF ShardRecord
<1>. HIDE DEF shard
<1>12. /\ parts' \in Seq(ShardRecord) /\ Len(parts') = i /\ parts'[i] = shard /\ parts' # <<>>
       /\ \A k \in 1..Len(parts) : parts'[k] = parts[k]
  BY <1>1, <1>2, <1>11
<1>13. ASSUME NEW k \in 1..i PROVE ShardFits(k)'
  <2>1. EffectiveStorage(candidates[k])' = EffectiveStorage(candidates[k])
    BY <1>2 DEF EffectiveStorage
  <2>2. CASE k = i
    BY <2>1, <2>2, <1>2, <1>9, <1>10, <1>11, <1>12 DEF ShardFits
  <2>3. CASE k # i
    <3>1. k \in 1..Len(parts)
      BY <2>3, <1>3
    <3>2. ShardFits(k) /\ parts'[k] = parts[k]
      BY <3>1, <1>1, <1>12 DEF ShardInv
    <3>. QED
      BY <2>1, <3>2, <1>2 DEF ShardFits
  <2>. QED
    BY <2>2, <2>3
<1>14. RestMemory' = RestMemory - m /\ RestDisk' = RestDisk - d
  BY <1>11, <1>12 DEF RestMemory, RestDisk
<1>15. CASE i = taken
  <2>1. pc' = "sharded" /\ taken' = i
    BY <1>2, <1>15
  <2>2. parts'[taken'].restMemory = 0 /\ parts'[taken'].restDisk = 0
    BY <2>1, <1>9, <1>10, <1>11, <1>12, <1>15
  <2>. QED
    BY <2>1, <2>2, <1>13 DEF ShardInv
<1>16. CASE i # taken
  <2>1. pc' = "shard"
    BY <1>2, <1>16
  <2>2. Memories' = Memories /\ Storages' = Storages
    BY <1>2 DEF Memories, Storages, EffectiveStorage
  <2>3. /\ SumTable(g, taken', Memories') /\ g[taken'] = memory'
        /\ SumTable(h, taken', Storages') /\ h[taken'] = disk'
    BY <1>2, <1>4, <1>5, <2>2
  <2>4. /\ RestMemory' = Remaining(model'.memory, g[Len(parts')])
        /\ RestDisk' = Remaining(model'.disk, h[Len(parts')])
    BY <1>2, <1>9, <1>10, <1>12, <1>14, <1>16
  <2>5. Len(parts') < taken'
    BY <1>1, <1>2, <1>3, <1>12, <1>16
  <2>6. memory' >= model'.memory /\ disk' >= model'.disk
    BY <1>1, <1>2
  <2>7. \A k \in 1..Len(parts') : ShardFits(k)'
    BY <1>12, <1>13
  <2>. QED
    BY <2>1, <2>3, <2>4, <2>5, <2>6, <2>7, <1>12 DEF ShardInv
<1>. QED
  BY <1>15, <1>16

(* For every fleet and model: a stage needs no more memory than its worker *)
(* offers and a layer, or half a layer for each of the others, and the     *)
(* shards of a placement add up to the model and fit their workers         *)
(* (buildDistributedStages, buildModelPlanShards).                         *)
THEOREM SharesFit == PlanSpec => []SharesFitWorkers
<1>1. PlanInit => StageInv /\ ShardInv
  BY DEF PlanInit, StageInv, ShardInv
<1>2. ChainInv /\ StageInv /\ ShardInv /\ [PlanNext]_planVars => StageInv' /\ ShardInv'
  <2>. SUFFICES ASSUME ChainInv, StageInv, ShardInv, [PlanNext]_planVars
                PROVE  StageInv' /\ ShardInv'
    OBVIOUS
  <2>1. CASE PlanRequest \/ SelectWorker
    <3>1. pc' \in {"blocked", "select", "split"}
      BY <2>1 DEF PlanRequest, SelectWorker
    <3>. QED
      BY <2>1, <3>1, SelectionKeepsShares DEF ShardInv
  <2>2. CASE BuildStage
    <3>1. pc' \in {"planned", "split"}
      BY <2>2 DEF BuildStage
    <3>. QED
      BY <2>2, <3>1, BuildStageKeepsShares DEF ShardInv
  <2>3. CASE PlaceRequest \/ PlaceWorker
    <3>1. pc' \in {"single", "blocked", "place", "shard"}
      BY <2>3 DEF PlaceRequest, PlaceWorker
    <3>. QED
      BY <2>3, <3>1, PlacingKeepsShards DEF StageInv
  <2>4. CASE BuildShard
    <3>1. pc' \in {"shard", "sharded"}
      BY <2>4 DEF BuildShard
    <3>. QED
      BY <2>4, <3>1, BuildShardKeepsShards DEF StageInv
  <2>5. CASE UNCHANGED planVars
    <3>1. UNCHANGED <<fleet, model, pc, candidates, taken, memory, disk, parts>>
      BY <2>5 DEF planVars
    <3>2. /\ Weights' = Weights /\ Memories' = Memories /\ Storages' = Storages
          /\ Slack' = Slack /\ NextLayer' = NextLayer
          /\ RestMemory' = RestMemory /\ RestDisk' = RestDisk
      BY <3>1 DEF Weights, Memories, Storages, Weight, EffectiveStorage, Slack, NextLayer,
         RestMemory, RestDisk
    <3>3. \A k : StageFits(k)' <=> StageFits(k)
      BY <3>1, <3>2 DEF StageFits, ProportionalBytes
    <3>4. \A k : ShardFits(k)' <=> ShardFits(k)
      BY <3>1 DEF ShardFits, EffectiveStorage
    <3>5. \A g : Balance(g)' <=> Balance(g)
      BY <3>1, <3>2 DEF Balance
    <3>6. StageInv'
      BY <3>1, <3>2, <3>3, <3>5 DEF StageInv
    <3>7. ShardInv'
      BY <3>1, <3>2, <3>4 DEF ShardInv
    <3>. QED
      BY <3>6, <3>7
  <2>. QED
    BY <2>1, <2>2, <2>3, <2>4, <2>5 DEF PlanNext
<1>3. ChainInv /\ StageInv /\ ShardInv => SharesFitWorkers
  <2>. SUFFICES ASSUME ChainInv, StageInv, ShardInv PROVE SharesFitWorkers
    OBVIOUS
  <2>1. ASSUME pc = "planned", taken <= model.layers, NEW k \in 1..taken
        PROVE  parts[k].memory <= fleet[parts[k].worker].memory
                                    + ProportionalBytes(model.memory, Slack, 2 * model.layers)
    BY <2>1 DEF StageInv, StageFits
  <2>2. ASSUME pc = "sharded", NEW k \in 1..taken
        PROVE  /\ parts[k].memory <= fleet[parts[k].worker].memory
               /\ parts[k].disk <= EffectiveStorage(parts[k].worker)
    BY <2>2 DEF ShardInv, ShardFits
  <2>. QED
    BY <2>1, <2>2 DEF SharesFitWorkers, Slack, ShardInv
<1>. QED
  BY <1>1, <1>2, <1>3, ChainInvAlways, PTL DEF PlanSpec

(* A worker whose report makes it capable in the eyes of the manager       *)
(* passes its own check, for every report: no comparison of the worker is  *)
(* stricter than the manager's (modelCapabilities,                         *)
(* validateWorkerCanRunJob).                                               *)
THEOREM CapableWorkersAccept == PlanSpec => []CapableWorkerAccepts
<1>1. CapableWorkerAccepts
  BY DEF CapableWorkerAccepts, Capable, WorkerAcceptsInstall
<1>. QED
  BY <1>1, PTL

=============================================================================
