CONSTANTS
  a1 = a1
  a2 = a2
  a3 = a3
  b1 = b1
  b2 = b2
  c1 = c1
  d1 = d1
  unknown = unknown
  Experiences <- TheExperiences
  Reference = 2
  SkillsOf <- TheSkillsOf
  GroupOf <- TheGroupOf
  HeightOf <- Heights
  ColumnOf <- Columns5
  OnePage = 10
  TwoPagesFrom = 15
  TwoPages = 20
  Analyses <- TheAnalyses
  LinesOf <- Heights
  OtherLines = 3
  Box = 480
  Tailored <- TheAnalyses
  Hidden = {"hidden"}
  OutSkills = {"ops"}
  MaxGroups = 2
  MaxGroupSkills = 1
  FactKind <- TheFactKind
  StatesYears = {"f2"}
  TitleIds <- TheTitles
  Tells <- TheTells
  AsksYears = {"Y"}
  Choosable <- TheChoosable
  Skills <- TheSkills
  Labels <- TheLabels
  Concepts <- TheConcepts
  Links <- TheLinks
  Lab = {"docker"}
  Ignored = {"ops"}
  Practice = {"administration"}
  Stated = {}
  Names <- TheNames
  Never = {"Kubernetes", "Cycles"}
  QualityWords = {"teamwork"}
  ConditionWords = {"clearance"}
  CertificateWords = {"certified"}
  DegreeWords = {"degree"}
  LanguageWords = {"fluent"}
  Languages <- L
  Certificates <- C
  Schools = {{5}}
  LevelAsked <- LA
  YearsAsked <- YA
  Offers <- TheOffers
  Answers <- TheAnswers
  Evidences <- TheEvidences
SPECIFICATION TableSpec
CHECK_DEADLOCK FALSE
INVARIANTS
  NeverClaimedIsSaid
