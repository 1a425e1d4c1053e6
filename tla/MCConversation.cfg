SPECIFICATION Spec
CONSTANTS
    None = None
    NotText = NotText
    Absent = Absent
    Texts <- AllTexts
    Profiles <- MCProfiles
    SystemPrompt <- MCSystemPrompt
    AutomaticDecisions <- MCAutomaticDecisions
    Questions <- MCQuestions
    Selections <- MCSelections
    Histories <- MCHistories
    Outcomes <- MCOutcomes
    MaxTurns = 3
INVARIANTS
    TypeOK
    HearsTheConversation
    ConversationGoesOn
    InnerModelsAccept
    AnswersTellTheDecision
CHECK_DEADLOCK FALSE
