SPECIFICATION Spec
CONSTANTS
  tools = tools
  resources = resources
  extra = extra
  init = init
  list1 = list1
  list2 = list2
  call = call
  Nobody = Nobody
  Methods = {tools, resources}
  ToolsList = tools
  Initializes = {init}
  Lists = {list1, list2}
  Others = {call}
  MethodOf <- TwoLists
  Announcements = {{}, {tools, resources}}
  InitialFiles <- AllFiles
  Edits <- EditedFiles
  Workloads = {{list1, list2}, {init, call}}
  MaxFaults = 2
INVARIANTS
  TypeOK
  CapabilitiesUsable
  LitterHasCause
  AnsweredOnce
PROPERTIES
  KeptForever
  ImplementsAtomicFile
