SPECIFICATION Spec
CONSTANTS
    http = http  ws = ws  other = other  agent = agent  chat = chat  token = token
    P = P  Q = Q
    Principals = {http, ws, other, agent, chat}
    Voter <- OneToken
    Agents <- OnlyAgent
    Chatters <- OnlyChat
    Mode = "OutOfBandRequired"
    Configs <- FiveConfigs
    Choices = {"approve", "revise", "deny"}
    NoPolicy = NoPolicy
    NoAnswer = NoAnswer
    Timeouts = {"Escalate", "Cancel", "AutoApprove"}
    Faults = {"save"}
    MaxVisits = 2
    MaxReloads = 1
INVARIANTS PromptsAreDistinct VotersAreCounted
PROPERTIES PassedByQuorum
SYMMETRY EitherTransport
CHECK_DEADLOCK FALSE
